---- MODULE Spec2Model ----
(***************************************************************************)
(* Joypad firmware core: the two-core start-up of main.c, the Core 0 main  *)
(* loop, and the USB device output of usb/usbd/usbd.c (pending-event       *)
(* slots, per-tick report sending, persisted output mode and the mode      *)
(* change by watchdog reset).                                              *)
(***************************************************************************)
EXTENDS Integers, Sequences, FiniteSets, TLC

(***************************************************************************)
(* Bounds of the model.                                                    *)
(***************************************************************************)
\* events the inputs publish in one behaviour
MaxEvents == 2
\* router publishes one input task makes in one poll
MaxBurst == 1
\* length of the input list of a generic app
MaxInputs == 1
\* length of the output list of a generic app
MaxOutputs == 2
\* buttons other than the d-pad pressed together in a sampled button word
MaxPressed == 2

(***************************************************************************)
(* Program constants.                                                      *)
(***************************************************************************)
USB_MAX_PLAYERS == 4

USB_OUTPUT_MODE_HID == 0
USB_OUTPUT_MODE_XBOX_ORIGINAL == 1
USB_OUTPUT_MODE_XINPUT == 2
USB_OUTPUT_MODE_PS3 == 3
USB_OUTPUT_MODE_PS4 == 4
USB_OUTPUT_MODE_SWITCH == 5
USB_OUTPUT_MODE_PSCLASSIC == 6
USB_OUTPUT_MODE_XBONE == 7
USB_OUTPUT_MODE_XAC == 8
USB_OUTPUT_MODE_KEYBOARD_MOUSE == 9
USB_OUTPUT_MODE_GC_ADAPTER == 10
USB_OUTPUT_MODE_COUNT == 11

\* a null pointer (mode pointer, event pointer, task pointer)
NULL == -1

\* hat values of the Switch report (switch_descriptors.h)
SWITCH_HAT_UP == 0
SWITCH_HAT_UP_RIGHT == 1
SWITCH_HAT_RIGHT == 2
SWITCH_HAT_DOWN_RIGHT == 3
SWITCH_HAT_DOWN == 4
SWITCH_HAT_DOWN_LEFT == 5
SWITCH_HAT_LEFT == 6
SWITCH_HAT_UP_LEFT == 7
SWITCH_HAT_CENTER == 8

\* centre of a stick axis of the Switch report
SWITCH_JOYSTICK_MID == 128

Modes == 0 .. (USB_OUTPUT_MODE_COUNT - 1)
Players == 0 .. (USB_MAX_PLAYERS - 1)

VARIABLES
    app,                \* what app_get_input/output_interfaces return (fixed)
    cfg_tud,            \* CFG_TUD_XINPUT / CFG_TUD_GC_ADAPTER of the build (fixed)
    mode_members,       \* the members each mode's usbd_mode_t populates (fixed)
    inputs,             \* main.c: cached input interfaces
    outputs,            \* main.c: cached output interfaces
    active_output,      \* main.c: primary output, "NULL" until set
    core1_actual_task,  \* main.c: task handed to Core 1, "NULL" if none
    core1_task_ready,   \* main.c: volatile ready flag
    pc0,                \* Core 0: position in main / core0_main
    idx,                \* Core 0: loop index i (1-based)
    trace,              \* Core 0: tasks called so far in this loop iteration
    pc1,                \* Core 1: position in core1_wrapper
    lockout_ready,      \* Core 1 finished flash_safe_execute_core_init
    evt,                \* Core 1 event register (set by __sev, taken by __wfe)
    core1_running,      \* the task Core 1 executes, "NULL" if none
    usbd_modes,         \* usbd.c: registry, mode id -> registered
    current_mode,       \* usbd.c: active mode pointer (mode id or NULL)
    output_mode,        \* usbd.c: current output mode
    flash_settings,     \* usbd.c: in-RAM flash record
    pending_events,     \* usbd.c: pending event per player
    pending_flags,      \* usbd.c: valid flag per player
    tap,                \* router: tap registered for OUTPUT_TARGET_USB_DEVICE
    tud_ready,          \* TinyUSB: readiness of the report endpoint
    flash,              \* the settings sector
    watchdog,           \* watchdog armed
    nextId,             \* history: number of the next published event
    send_log,           \* history: calls of a mode's send_report
    overwritten,        \* history: events overwritten in a valid slot
    stalled,            \* history: player 0's event has met a tick that was not ready
    combo_log,          \* history: calls of profile_check_switch_combo
    boot_request,       \* history: output_mode at the reset that led to this boot
    calls               \* calls made by the last step of Core 0

cfgVars == <<app, cfg_tud, mode_members>>
mainVars == <<inputs, outputs, active_output, core1_actual_task, core1_task_ready>>
c0Vars == <<pc0, idx, trace>>
c1Vars == <<pc1, lockout_ready, evt, core1_running>>
slotVars == <<pending_events, pending_flags>>
modeVars == <<usbd_modes, current_mode, output_mode, flash_settings, tap>>
hwVars == <<flash, watchdog>>
histVars == <<nextId, send_log, overwritten, stalled, combo_log, boot_request>>
vars == <<cfgVars, mainVars, c0Vars, c1Vars, slotVars, modeVars, tud_ready,
          hwVars, histVars, calls>>

(***************************************************************************)
(* Interfaces an app can declare.                                          *)
(***************************************************************************)
\* An output interface: which members are non-null.  "usbd" is
\* usbd_output_interface; the others stand for native outputs.
OutputInterface(o) ==
    CASE o = "usbd"   -> [init |-> TRUE,  task |-> TRUE,  core1_task |-> "NULL"]
      [] o = "natA"   -> [init |-> TRUE,  task |-> TRUE,  core1_task |-> "natA_core1"]
      [] o = "natB"   -> [init |-> TRUE,  task |-> FALSE, core1_task |-> "natB_core1"]
      [] o = "plain"  -> [init |-> FALSE, task |-> TRUE,  core1_task |-> "NULL"]
      [] OTHER        -> [init |-> FALSE, task |-> FALSE, core1_task |-> "NULL"]

\* An input interface: which members are non-null.
InputInterface(i) ==
    CASE i = "usbh"   -> [init |-> TRUE,  task |-> TRUE]
      [] i = "bare"   -> [init |-> FALSE, task |-> FALSE]
      [] OTHER        -> [init |-> FALSE, task |-> FALSE]

\* sequences over S of length at most n
SeqUpTo(S, n) == UNION {[1 .. k -> S] : k \in 0 .. n}

\* the app of this repository (apps/usb2usb/app_config.h)
Usb2UsbApp == [inputs |-> <<"usbh">>, outputs |-> <<"usbd">>]

\* apps built from native outputs; "null" is a NULL entry of the array
GenericApps ==
    [inputs : SeqUpTo({"usbh", "bare", "null"}, MaxInputs),
     outputs : SeqUpTo({"natA", "natB", "plain", "null"}, MaxOutputs)]

(***************************************************************************)
(* Flash store (core/services/storage/flash.c is not part of the sources:  *)
(* modelled from its interface).                                           *)
(***************************************************************************)
\* a flash_t record after memset(0)
ZeroRecord == [usb_output_mode |-> 0, active_profile_index |-> 0,
            custom_profiles |-> 0]

\* an erased sector (magic mismatch): every byte reads 0xFF
BlankFlash ==
    [valid |-> FALSE, rec |-> [usb_output_mode |-> 255, active_profile_index |-> 255,
            custom_profiles |-> 255]]

\* flash_load: ok iff magic and CRC match; the record read
flash_load(f) == [ok |-> f.valid, rec |-> f.rec]

\* flash_save_now: rewrites the whole sector; a failed write leaves it as it was
flash_save_now(f, rec, ok) == IF ok THEN [valid |-> TRUE, rec |-> rec] ELSE f

(***************************************************************************)
(* Mode registry and mode capability tables.                               *)
(***************************************************************************)
\* switch_mode: which members are non-null
switch_mode ==
    [init |-> TRUE, send_report |-> TRUE, is_ready |-> TRUE,
     get_report_descriptor |-> TRUE,
     handle_output |-> FALSE, get_rumble |-> FALSE, get_feedback |-> FALSE,
     get_report |-> FALSE, get_class_driver |-> FALSE, task |-> FALSE]

\* the other modes (their files are not part of the sources): init, is_ready
\* and send_report are mandatory members; task and get_class_driver are the
\* members of the vendor-class modes; the remaining optional members are
\* populated for the modes whose case of the dispatcher consults them
other_mode(m) ==
    [init |-> TRUE, send_report |-> TRUE, is_ready |-> TRUE,
     get_report_descriptor |->
        m \in {USB_OUTPUT_MODE_HID, USB_OUTPUT_MODE_PS3, USB_OUTPUT_MODE_PSCLASSIC,
               USB_OUTPUT_MODE_PS4, USB_OUTPUT_MODE_XAC,
               USB_OUTPUT_MODE_KEYBOARD_MOUSE, USB_OUTPUT_MODE_GC_ADAPTER},
     handle_output |->
        m \in {USB_OUTPUT_MODE_KEYBOARD_MOUSE, USB_OUTPUT_MODE_PS3,
               USB_OUTPUT_MODE_PS4, USB_OUTPUT_MODE_GC_ADAPTER},
     get_rumble |->
        m \in {USB_OUTPUT_MODE_XBOX_ORIGINAL, USB_OUTPUT_MODE_XINPUT,
               USB_OUTPUT_MODE_PS3, USB_OUTPUT_MODE_PS4, USB_OUTPUT_MODE_GC_ADAPTER},
     get_feedback |->
        m \in {USB_OUTPUT_MODE_XBOX_ORIGINAL, USB_OUTPUT_MODE_XINPUT,
               USB_OUTPUT_MODE_PS3, USB_OUTPUT_MODE_PS4, USB_OUTPUT_MODE_GC_ADAPTER},
     get_report |-> m \in {USB_OUTPUT_MODE_PS3, USB_OUTPUT_MODE_PS4},
     get_class_driver |->
        m \in {USB_OUTPUT_MODE_XBOX_ORIGINAL, USB_OUTPUT_MODE_XINPUT,
               USB_OUTPUT_MODE_XBONE, USB_OUTPUT_MODE_GC_ADAPTER},
     task |-> m \in {USB_OUTPUT_MODE_XBOX_ORIGINAL, USB_OUTPUT_MODE_XINPUT,
                     USB_OUTPUT_MODE_XBONE, USB_OUTPUT_MODE_GC_ADAPTER}]

\* the member tables of the eleven modes as built
DeclaredMembers ==
    [m \in Modes |-> IF m = USB_OUTPUT_MODE_SWITCH THEN switch_mode ELSE other_mode(m)]

\* the usbd_mode_t of mode m
usbd_mode(m) == mode_members[m]

\* the registry before usbd_register_modes: all entries NULL
NoModes == [m \in Modes |-> FALSE]

\* usbd_register_modes: XInput and GC Adapter only when compiled in
usbd_register_modes(cfg) ==
    [m \in Modes |->
        IF m \in {USB_OUTPUT_MODE_XINPUT, USB_OUTPUT_MODE_GC_ADAPTER} THEN cfg ELSE TRUE]

\* one call of an external function, with up to three integer arguments
Call(fn, a, b, c) == [fn |-> fn, a |-> a, b |-> b, c |-> c]

\* a call together with what it returned
CallRet(fn, a, b, c, ret) == [fn |-> fn, a |-> a, b |-> b, c |-> c, ret |-> ret]

(***************************************************************************)
(* The tap: usbd_on_input.  q holds the slots and the history of the tap.  *)
(***************************************************************************)
\* variant: a valid slot keeps the event it holds (first wins)
usbd_on_input_first_wins(q, player_index, event) ==
    IF player_index >= USB_MAX_PLAYERS \/ event = NULL
    THEN q
    ELSE [q EXCEPT
            !.combo = IF player_index = 0
                      THEN Append(@, [ev |-> event, slot |-> q.ev[0]]) ELSE @,
            !.over = IF q.fl[player_index] THEN @ \cup {q.ev[player_index]} ELSE @,
            !.ev[player_index] = IF q.fl[player_index] THEN @ ELSE event,
            !.fl[player_index] = TRUE]

\* variant: the event pointer is not tested
usbd_on_input_no_null_test(q, player_index, event) ==
    IF player_index >= USB_MAX_PLAYERS
    THEN q
    ELSE [q EXCEPT
            !.combo = IF player_index = 0
                      THEN Append(@, [ev |-> event, slot |-> q.ev[0]]) ELSE @,
            !.over = IF q.fl[player_index] THEN @ \cup {q.ev[player_index]} ELSE @,
            !.ev[player_index] = event,
            !.fl[player_index] = TRUE]

\* variant: the tap consumes the slots of the other players
usbd_on_input_clears_others(q, player_index, event) ==
    IF player_index >= USB_MAX_PLAYERS \/ event = NULL
    THEN q
    ELSE [q EXCEPT
            !.combo = IF player_index = 0
                      THEN Append(@, [ev |-> event, slot |-> q.ev[0]]) ELSE @,
            !.over = IF q.fl[player_index] THEN @ \cup {q.ev[player_index]} ELSE @,
            !.ev[player_index] = event,
            !.fl = [p \in Players |-> p = player_index]]

\* variant: the slot is written before the combo check runs
usbd_on_input_store_first(q, player_index, event) ==
    IF player_index >= USB_MAX_PLAYERS \/ event = NULL
    THEN q
    ELSE [q EXCEPT
            !.combo = IF player_index = 0
                      THEN Append(@, [ev |-> event, slot |-> event]) ELSE @,
            !.over = IF q.fl[player_index] THEN @ \cup {q.ev[player_index]} ELSE @,
            !.ev[player_index] = event,
            !.fl[player_index] = TRUE]

\* usbd_on_input.  The history keeps, for each call of
\* profile_check_switch_combo, the event checked and what slot 0 held then
usbd_on_input(q, player_index, event) ==
    IF player_index >= USB_MAX_PLAYERS \/ event = NULL
    THEN q
    ELSE [q EXCEPT
            !.combo = IF player_index = 0
                      THEN Append(@, [ev |-> event, slot |-> q.ev[0]]) ELSE @,
            !.over = IF q.fl[player_index] THEN @ \cup {q.ev[player_index]} ELSE @,
            !.ev[player_index] = event,
            !.fl[player_index] = TRUE]

\* router publish: a synchronous call of the registered tap, if any
router_publish(q, t, player_index, event) ==
    IF t = "usbd_on_input" THEN usbd_on_input(q, player_index, event) ELSE q

\* one poll of an input: its publishes in order; a non-null event takes the
\* next event number
RECURSIVE PublishAll(_, _, _, _)
PublishAll(q, t, burst, id) ==
    IF burst = <<>> THEN [q |-> q, id |-> id, calls |-> <<>>]
    ELSE LET b == Head(burst)
             e == IF b.null THEN NULL ELSE id
             r == PublishAll(router_publish(q, t, b.player, e), t, Tail(burst),
                             IF b.null THEN id ELSE id + 1)
         IN [r EXCEPT !.calls = <<Call("publish", b.player, e, 0)>> \o @]

\* player indices an input publishes for: the first player, another valid
\* player, and an index that is out of range
PublishPlayers == {0, 1, USB_MAX_PLAYERS}

\* what an input may publish in one call of its task
Publications ==
    {[player |-> p, null |-> FALSE] : p \in PublishPlayers}
        \cup {[player |-> 0, null |-> TRUE]}

NonNull(burst) == Cardinality({k \in DOMAIN burst : ~burst[k].null})

Bursts(id) ==
    {b \in SeqUpTo(Publications, MaxBurst) : id + NonNull(b) <= MaxEvents + 1}

(***************************************************************************)
(* Report sending.                                                         *)
(***************************************************************************)
\* the case of switch (output_mode) taken in usbd_task and usbd_send_report:
\* the XInput and GC Adapter cases exist only when compiled in, every other
\* value falls to the HID default
ModeCase(om, cfg) ==
    IF om \in {USB_OUTPUT_MODE_XINPUT, USB_OUTPUT_MODE_GC_ADAPTER} /\ ~cfg
    THEN USB_OUTPUT_MODE_HID
    ELSE IF om \in Modes THEN om ELSE USB_OUTPUT_MODE_HID

\* variant: no mode sends anything when no event is pending
usbd_send_mode_report_no_idle(m, player_index, reg, ready, fl, ev, log, ok) ==
    LET md == usbd_mode(m)
        asked == IF md.is_ready
                 THEN <<Call("is_ready", m, IF ready THEN 1 ELSE 0, 0)>> ELSE <<>>
        none == [fl |-> fl, log |-> log, calls |-> <<>>, ret |-> FALSE]
    IN  IF ~reg[m] \/ ~md.send_report THEN none
        ELSE IF md.is_ready /\ ~ready THEN [none EXCEPT !.calls = asked]
        ELSE IF player_index >= USB_MAX_PLAYERS \/ ~fl[player_index]
        THEN [none EXCEPT !.calls = asked]
        ELSE [fl |-> [fl EXCEPT ![player_index] = FALSE],
              log |-> Append(log, [mode |-> m, player |-> player_index,
                                   ev |-> ev[player_index]]),
              calls |-> asked \o
                        <<Call("apply_usbd_profile", player_index, ev[player_index], 0),
                          CallRet("send_report", m, player_index, ev[player_index], ok)>>,
              ret |-> ok]

\* variant: the flag of the slot is left set after the report was sent
usbd_send_mode_report_keep_flag(m, player_index, reg, ready, fl, ev, log, ok) ==
    LET md == usbd_mode(m)
        asked == IF md.is_ready
                 THEN <<Call("is_ready", m, IF ready THEN 1 ELSE 0, 0)>> ELSE <<>>
        none == [fl |-> fl, log |-> log, calls |-> <<>>, ret |-> FALSE]
    IN  IF ~reg[m] \/ ~md.send_report THEN none
        ELSE IF md.is_ready /\ ~ready THEN [none EXCEPT !.calls = asked]
        ELSE IF player_index >= USB_MAX_PLAYERS \/ ~fl[player_index]
        THEN [none EXCEPT !.calls = asked]
        ELSE [fl |-> fl,
              log |-> Append(log, [mode |-> m, player |-> player_index,
                                   ev |-> ev[player_index]]),
              calls |-> asked \o
                        <<Call("apply_usbd_profile", player_index, ev[player_index], 0),
                          CallRet("send_report", m, player_index, ev[player_index], ok)>>,
              ret |-> ok]

\* variant: the slot is consumed only when send_report succeeded
usbd_send_mode_report_retry_failed(m, player_index, reg, ready, fl, ev, log, ok) ==
    LET md == usbd_mode(m)
        asked == IF md.is_ready
                 THEN <<Call("is_ready", m, IF ready THEN 1 ELSE 0, 0)>> ELSE <<>>
        none == [fl |-> fl, log |-> log, calls |-> <<>>, ret |-> FALSE]
    IN  IF ~reg[m] \/ ~md.send_report THEN none
        ELSE IF md.is_ready /\ ~ready THEN [none EXCEPT !.calls = asked]
        ELSE IF player_index >= USB_MAX_PLAYERS \/ ~fl[player_index]
        THEN [none EXCEPT !.calls = asked]
        ELSE [fl |-> [fl EXCEPT ![player_index] = ~ok],
              log |-> IF ok THEN Append(log, [mode |-> m, player |-> player_index,
                                              ev |-> ev[player_index]])
                      ELSE log,
              calls |-> asked \o
                        <<Call("apply_usbd_profile", player_index, ev[player_index], 0),
                          CallRet("send_report", m, player_index, ev[player_index], ok)>>,
              ret |-> ok]

\* usbd_send_<mode>_report for mode m.  reg: registry, ready: what is_ready()
\* returns, fl/ev: the slots, log: send history, ok: what the mode's
\* send_report returns
usbd_send_mode_report(m, player_index, reg, ready, fl, ev, log, ok) ==
    LET md == usbd_mode(m)
        asked == IF md.is_ready
                 THEN <<Call("is_ready", m, IF ready THEN 1 ELSE 0, 0)>> ELSE <<>>
        none == [fl |-> fl, log |-> log, calls |-> <<>>, ret |-> FALSE]
    IN  IF ~reg[m] \/ ~md.send_report THEN none
        ELSE IF md.is_ready /\ ~ready THEN [none EXCEPT !.calls = asked]
        ELSE IF player_index >= USB_MAX_PLAYERS \/ ~fl[player_index]
        THEN IF m = USB_OUTPUT_MODE_KEYBOARD_MOUSE
             THEN [none EXCEPT
                     !.calls = asked \o <<Call("kbmouse_mode_send_idle_mouse", 0, 0, 0)>>,
                     !.ret = ok]
             ELSE [none EXCEPT !.calls = asked]
        ELSE [fl |-> [fl EXCEPT ![player_index] = FALSE],
              log |-> Append(log, [mode |-> m, player |-> player_index,
                                   ev |-> ev[player_index]]),
              calls |-> asked \o
                        <<Call("apply_usbd_profile", player_index, ev[player_index], 0),
                          CallRet("send_report", m, player_index, ev[player_index], ok)>>,
              ret |-> ok]

usbd_send_report(player_index, om, cfg, reg, ready, fl, ev, log, ok) ==
    usbd_send_mode_report(ModeCase(om, cfg), player_index, reg, ready, fl, ev, log, ok)

\* the modes whose case of usbd_task runs the mode's task member
TaskCases ==
    {USB_OUTPUT_MODE_XBOX_ORIGINAL, USB_OUTPUT_MODE_XINPUT,
     USB_OUTPUT_MODE_XBONE, USB_OUTPUT_MODE_GC_ADAPTER}

\* the modes whose case of usbd_task asks tud_hid_ready() itself
HidReadyCases == {USB_OUTPUT_MODE_HID, USB_OUTPUT_MODE_PS4}

\* the modes whose case of usbd_task runs cdc_task
CdcCases ==
    {USB_OUTPUT_MODE_HID, USB_OUTPUT_MODE_SWITCH, USB_OUTPUT_MODE_KEYBOARD_MOUSE}

\* variant: the report is sent whatever the readiness test answered
usbd_task_send_unchecked(om, cfg, reg, ready, fl, ev, log, ok) ==
    LET m == ModeCase(om, cfg)
        send == usbd_send_report(0, om, cfg, reg, TRUE, fl, ev, log, ok)
    IN [send EXCEPT !.calls = <<Call("is_ready", m, IF ready THEN 1 ELSE 0, 0)>> \o @]

\* variant: the mode's task runs after the report was sent
usbd_task_send_task_last(om, cfg, reg, ready, fl, ev, log, ok) ==
    LET m == ModeCase(om, cfg)
        md == usbd_mode(m)
        skip == [fl |-> fl, log |-> log, calls |-> <<>>, ret |-> FALSE]
        send == usbd_send_report(0, om, cfg, reg, ready, fl, ev, log, ok)
        ran == IF m \in TaskCases /\ reg[m] /\ md.task
               THEN <<Call("mode_task", m, 0, 0)>> ELSE <<>>
        r == IF m \in HidReadyCases
             THEN IF ready
                  THEN [send EXCEPT !.calls = <<Call("tud_hid_ready", m, 1, 0)>> \o @]
                  ELSE [skip EXCEPT !.calls = <<Call("tud_hid_ready", m, 0, 0)>>]
             ELSE IF reg[m] /\ md.is_ready
                  THEN IF ready
                       THEN [send EXCEPT !.calls = <<Call("is_ready", m, 1, 0)>> \o @]
                       ELSE [skip EXCEPT !.calls = <<Call("is_ready", m, 0, 0)>>]
                  ELSE skip
    IN [r EXCEPT !.calls = @ \o ran]

\* usbd_task after tud_task and cdc_task: the mode's task, the readiness
\* check and usbd_send_report(0)
usbd_task_send(om, cfg, reg, ready, fl, ev, log, ok) ==
    LET m == ModeCase(om, cfg)
        md == usbd_mode(m)
        skip == [fl |-> fl, log |-> log, calls |-> <<>>, ret |-> FALSE]
        send == usbd_send_report(0, om, cfg, reg, ready, fl, ev, log, ok)
        ran == IF m \in TaskCases /\ reg[m] /\ md.task
               THEN <<Call("mode_task", m, 0, 0)>> ELSE <<>>
        r == IF m \in HidReadyCases
             THEN IF ready
                  THEN [send EXCEPT !.calls = <<Call("tud_hid_ready", m, 1, 0)>> \o @]
                  ELSE [skip EXCEPT !.calls = <<Call("tud_hid_ready", m, 0, 0)>>]
             ELSE IF reg[m] /\ md.is_ready
                  THEN IF ready
                       THEN [send EXCEPT !.calls = <<Call("is_ready", m, 1, 0)>> \o @]
                       ELSE [skip EXCEPT !.calls = <<Call("is_ready", m, 0, 0)>>]
                  ELSE skip
    IN [r EXCEPT !.calls = ran \o @]

(***************************************************************************)
(* Mode selection.                                                         *)
(***************************************************************************)
SupportedModes ==
    {USB_OUTPUT_MODE_HID, USB_OUTPUT_MODE_XBOX_ORIGINAL, USB_OUTPUT_MODE_XINPUT,
     USB_OUTPUT_MODE_PS3, USB_OUTPUT_MODE_PS4, USB_OUTPUT_MODE_SWITCH,
     USB_OUTPUT_MODE_PSCLASSIC, USB_OUTPUT_MODE_XBONE, USB_OUTPUT_MODE_XAC,
     USB_OUTPUT_MODE_KEYBOARD_MOUSE, USB_OUTPUT_MODE_GC_ADAPTER}

\* variant: the target id is not validated
usbd_set_mode_unvalidated(mode, om, fs, f, wd, save_ok) ==
    IF mode = om
    THEN [ret |-> FALSE, spin |-> FALSE, output_mode |-> om,
          flash_settings |-> fs, flash |-> f, watchdog |-> wd,
          calls |-> <<Call("usbd_set_mode", mode, 0, 0)>>]
    ELSE LET fs2 == [fs EXCEPT !.usb_output_mode = mode]
             f2 == flash_save_now(f, fs2, save_ok)
         IN [ret |-> TRUE, spin |-> TRUE, output_mode |-> mode,
             flash_settings |-> fs2, flash |-> f2, watchdog |-> TRUE,
             calls |-> <<Call("usbd_set_mode", mode, 1, 0),
                         Call("flash_save_now", mode, IF save_ok THEN 1 ELSE 0, 0),
                         Call("watchdog_enable", 100, 0, 0)>>]

\* variant: a request for the mode already active is not filtered out
usbd_set_mode_no_same_test(mode, om, fs, f, wd, save_ok) ==
    IF mode >= USB_OUTPUT_MODE_COUNT \/ mode \notin SupportedModes
    THEN [ret |-> FALSE, spin |-> FALSE, output_mode |-> om,
          flash_settings |-> fs, flash |-> f, watchdog |-> wd,
          calls |-> <<Call("usbd_set_mode", mode, 0, 0)>>]
    ELSE LET fs2 == [fs EXCEPT !.usb_output_mode = mode]
             f2 == flash_save_now(f, fs2, save_ok)
         IN [ret |-> TRUE, spin |-> TRUE, output_mode |-> mode,
             flash_settings |-> fs2, flash |-> f2, watchdog |-> TRUE,
             calls |-> <<Call("usbd_set_mode", mode, 1, 0),
                         Call("flash_save_now", mode, IF save_ok THEN 1 ELSE 0, 0),
                         Call("watchdog_enable", 100, 0, 0)>>]

\* variant: the record saved is built afresh around the new mode
usbd_set_mode_fresh_record(mode, om, fs, f, wd, save_ok) ==
    IF mode >= USB_OUTPUT_MODE_COUNT \/ mode \notin SupportedModes \/ mode = om
    THEN [ret |-> FALSE, spin |-> FALSE, output_mode |-> om,
          flash_settings |-> fs, flash |-> f, watchdog |-> wd,
          calls |-> <<Call("usbd_set_mode", mode, 0, 0)>>]
    ELSE LET fs2 == [ZeroRecord EXCEPT !.usb_output_mode = mode]
             f2 == flash_save_now(f, fs2, save_ok)
         IN [ret |-> TRUE, spin |-> TRUE, output_mode |-> mode,
             flash_settings |-> fs2, flash |-> f2, watchdog |-> TRUE,
             calls |-> <<Call("usbd_set_mode", mode, 1, 0),
                         Call("flash_save_now", mode, IF save_ok THEN 1 ELSE 0, 0),
                         Call("watchdog_enable", 100, 0, 0)>>]

\* usbd_set_mode(mode).  om: output_mode, fs: flash_settings, f: the sector,
\* wd: watchdog armed, save_ok: whether the flash write succeeds.  spin: the
\* call ends in while(1) and does not return
usbd_set_mode(mode, om, fs, f, wd, save_ok) ==
    LET same == [ret |-> FALSE, spin |-> FALSE, output_mode |-> om,
                 flash_settings |-> fs, flash |-> f, watchdog |-> wd,
                 calls |-> <<Call("usbd_set_mode", mode, 0, 0)>>]
    IN  IF mode >= USB_OUTPUT_MODE_COUNT THEN same
        ELSE IF mode \notin SupportedModes THEN same
        ELSE IF mode = om THEN same
        ELSE LET fs2 == [fs EXCEPT !.usb_output_mode = mode]
                 f2 == flash_save_now(f, fs2, save_ok)
                 v == flash_load(f2)
             IN [ret |-> TRUE, spin |-> TRUE, output_mode |-> mode,
                 flash_settings |-> fs2, flash |-> f2, watchdog |-> TRUE,
                 calls |-> <<Call("usbd_set_mode", mode, 1, 0),
                             Call("flush_debug_output", om, 0, 0),
                             Call("flush_debug_output", om, 0, 0),
                             Call("flush_debug_output", om, 0, 0),
                             Call("flash_save_now", mode, IF save_ok THEN 1 ELSE 0, 0),
                             Call("flush_debug_output", om, 0, 0),
                             Call("flash_load", IF v.ok THEN 1 ELSE 0,
                                  v.rec.usb_output_mode, 0),
                             Call("flush_debug_output", om, 0, 0),
                             Call("flush_debug_output", mode, 0, 0),
                             Call("watchdog_enable", 100, 0, 0)>>]

\* tud_descriptor_device_cb: the device descriptor sent to the host
tud_descriptor_device_cb(om) ==
    CASE om = USB_OUTPUT_MODE_XBOX_ORIGINAL -> "xbox_og_device_descriptor"
      [] om = USB_OUTPUT_MODE_XINPUT -> "xinput_device_descriptor"
      [] om = USB_OUTPUT_MODE_SWITCH -> "switch_device_descriptor"
      [] om = USB_OUTPUT_MODE_PS3 -> "ps3_device_descriptor"
      [] om = USB_OUTPUT_MODE_PSCLASSIC -> "psclassic_device_descriptor"
      [] om = USB_OUTPUT_MODE_PS4 -> "ps4_device_descriptor"
      [] om = USB_OUTPUT_MODE_XBONE -> "xbone_device_descriptor"
      [] om = USB_OUTPUT_MODE_XAC -> "xac_device_descriptor"
      [] om = USB_OUTPUT_MODE_KEYBOARD_MOUSE -> "kbmouse_device_descriptor"
      [] om = USB_OUTPUT_MODE_GC_ADAPTER -> "gc_adapter_device_descriptor"
      [] OTHER -> "desc_device_hid"

\* arguments a caller may pass to usbd_set_mode
ModeArgs ==
    {USB_OUTPUT_MODE_HID, USB_OUTPUT_MODE_XINPUT, USB_OUTPUT_MODE_SWITCH,
     USB_OUTPUT_MODE_COUNT, USB_OUTPUT_MODE_COUNT + 1}

\* variant: the record is not cleared when flash_load fails
usbd_init_no_memset(cfg, f, om) ==
    LET reg == usbd_register_modes(cfg)
        ld == flash_load(f)
        fs == ld.rec
        om2 == IF ld.ok /\ fs.usb_output_mode < USB_OUTPUT_MODE_COUNT
                  /\ fs.usb_output_mode \in SupportedModes
               THEN fs.usb_output_mode ELSE om
    IN [usbd_modes |-> reg, flash_settings |-> fs, output_mode |-> om2,
        current_mode |-> IF reg[om2] THEN om2 ELSE NULL,
        tap |-> "usbd_on_input",
        calls |-> <<Call("usbd_register_modes", 0, 0, 0),
                    Call("flash_load", IF ld.ok THEN 1 ELSE 0, fs.usb_output_mode, 0),
                    Call("router_set_tap", 0, 0, 0)>>]

\* variant: no tap is registered
usbd_init_no_tap(cfg, f, om) ==
    LET reg == usbd_register_modes(cfg)
        ld == flash_load(f)
        fs == IF ld.ok THEN ld.rec ELSE ZeroRecord
        om2 == IF ld.ok /\ fs.usb_output_mode < USB_OUTPUT_MODE_COUNT
                  /\ fs.usb_output_mode \in SupportedModes
               THEN fs.usb_output_mode ELSE om
    IN [usbd_modes |-> reg, flash_settings |-> fs, output_mode |-> om2,
        current_mode |-> IF reg[om2] THEN om2 ELSE NULL,
        tap |-> "NULL",
        calls |-> <<Call("usbd_register_modes", 0, 0, 0),
                    Call("flash_load", IF ld.ok THEN 1 ELSE 0, fs.usb_output_mode, 0)>>]

\* variant: the stored mode byte is taken as it is
usbd_init_unvalidated(cfg, f, om) ==
    LET reg == usbd_register_modes(cfg)
        ld == flash_load(f)
        fs == IF ld.ok THEN ld.rec ELSE ZeroRecord
        om2 == IF ld.ok THEN fs.usb_output_mode ELSE om
    IN [usbd_modes |-> reg, flash_settings |-> fs, output_mode |-> om2,
        current_mode |-> IF om2 \in Modes /\ reg[om2] THEN om2 ELSE NULL,
        tap |-> "usbd_on_input",
        calls |-> <<Call("usbd_register_modes", 0, 0, 0),
                    Call("flash_load", IF ld.ok THEN 1 ELSE 0, fs.usb_output_mode, 0),
                    Call("router_set_tap", 0, 0, 0)>>]

\* usbd_init: registry, settings load and validation, tap registration
usbd_init(cfg, f, om) ==
    LET reg == usbd_register_modes(cfg)
        ld == flash_load(f)
        fs == IF ld.ok THEN ld.rec ELSE ZeroRecord
        om2 == IF ld.ok /\ fs.usb_output_mode < USB_OUTPUT_MODE_COUNT
                  /\ fs.usb_output_mode \in SupportedModes
               THEN fs.usb_output_mode ELSE om
    IN [usbd_modes |-> reg, flash_settings |-> fs, output_mode |-> om2,
        current_mode |-> IF reg[om2] THEN om2 ELSE NULL,
        tap |-> "usbd_on_input",
        calls |-> <<Call("usbd_register_modes", 0, 0, 0),
                    Call("flash_load", IF ld.ok THEN 1 ELSE 0, fs.usb_output_mode, 0)>>
                  \o (IF reg[om2] /\ usbd_mode(om2).init
                      THEN <<Call("mode_init", om2, 0, 0)>> ELSE <<>>)
                  \o (IF om2 \in CdcCases THEN <<Call("cdc_init", 0, 0, 0)>> ELSE <<>>)
                  \o <<Call("router_set_tap", 0, 0, 0)>>]

(***************************************************************************)
(* Initial states.                                                         *)
(***************************************************************************)
\* mode bytes a settings sector may hold at power-on
StoredModes == {USB_OUTPUT_MODE_HID, USB_OUTPUT_MODE_SWITCH, USB_OUTPUT_MODE_COUNT}

\* what the settings sector may hold at power-on
FlashImages ==
    {BlankFlash} \cup
    {[valid |-> TRUE, rec |-> [usb_output_mode |-> m, active_profile_index |-> 1,
            custom_profiles |-> 2]] :
        m \in StoredModes}

\* RAM after reset (static initialisers of main.c and usbd.c)
RamInit ==
    /\ inputs = <<>>
    /\ outputs = <<>>
    /\ active_output = "NULL"
    /\ core1_actual_task = "NULL"
    /\ core1_task_ready = FALSE
    /\ pc0 = "launch"
    /\ idx = 1
    /\ trace = <<>>
    /\ pc1 = "off"
    /\ lockout_ready = FALSE
    /\ evt = FALSE
    /\ core1_running = "NULL"
    /\ usbd_modes = NoModes
    /\ current_mode = NULL
    /\ output_mode = USB_OUTPUT_MODE_HID
    /\ flash_settings = ZeroRecord
    /\ pending_events = [p \in Players |-> 0]
    /\ pending_flags = [p \in Players |-> FALSE]
    /\ tap = "NULL"
    /\ tud_ready = FALSE
    /\ watchdog = FALSE

HistInit ==
    /\ nextId = 1
    /\ send_log = <<>>
    /\ overwritten = {}
    /\ stalled = FALSE
    /\ combo_log = <<>>
    /\ boot_request = NULL
    /\ calls = <<>>

\* the usb2usb app of the repository
Init ==
    /\ app = Usb2UsbApp
    /\ cfg_tud \in BOOLEAN
    /\ mode_members = DeclaredMembers
    /\ flash \in FlashImages
    /\ RamInit
    /\ HistInit

\* any app built from native outputs
InitApps ==
    /\ app \in GenericApps
    /\ cfg_tud = TRUE
    /\ mode_members = DeclaredMembers
    /\ flash = BlankFlash
    /\ RamInit
    /\ HistInit

(***************************************************************************)
(* Core 0: main().                                                         *)
(***************************************************************************)
\* multicore_launch_core1(core1_wrapper)
LaunchCore1 ==
    /\ pc0 = "launch"
    /\ pc0' = "sleep"
    /\ pc1' = "flash_init"
    /\ calls' = <<Call("multicore_launch_core1", 0, 0, 0)>>
    /\ UNCHANGED <<cfgVars, mainVars, idx, trace, lockout_ready, evt, core1_running,
                   slotVars, modeVars, tud_ready, hwVars, histVars>>

\* sleep_ms(10): a delay, no synchronisation with Core 1
Sleep ==
    /\ pc0 = "sleep"
    /\ pc0' = "leds_init"
    /\ calls' = <<Call("sleep_ms", 10, 0, 0)>>
    /\ UNCHANGED <<cfgVars, mainVars, idx, trace, c1Vars,
                   slotVars, modeVars, tud_ready, hwVars, histVars>>

ServiceInits == <<"leds_init", "storage_init", "players_init", "app_init">>

\* leds_init(); storage_init(); players_init(); app_init();
ServiceInit ==
    /\ \E k \in DOMAIN ServiceInits :
          /\ pc0 = ServiceInits[k]
          /\ pc0' = IF k < Len(ServiceInits) THEN ServiceInits[k + 1] ELSE "inputs_get"
    /\ calls' = <<Call(pc0, 0, 0, 0)>>
    /\ UNCHANGED <<cfgVars, mainVars, idx, trace, c1Vars,
                   slotVars, modeVars, tud_ready, hwVars, histVars>>

\* inputs = app_get_input_interfaces(&input_count)
GetInputs ==
    /\ pc0 = "inputs_get"
    /\ inputs' = app.inputs
    /\ pc0' = "inputs_init"
    /\ idx' = 1
    /\ calls' = <<>>
    /\ UNCHANGED <<cfgVars, outputs, active_output, core1_actual_task, core1_task_ready,
                   trace, c1Vars, slotVars, modeVars, tud_ready, hwVars, histVars>>

\* one pass of the input init loop (or its exit)
InitInput ==
    /\ pc0 = "inputs_init"
    /\ IF idx > Len(inputs)
       THEN /\ pc0' = "outputs_get"
            /\ idx' = 1
            /\ calls' = <<>>
       ELSE /\ pc0' = pc0
            /\ idx' = idx + 1
            /\ calls' = IF inputs[idx] # "null" /\ InputInterface(inputs[idx]).init
                        THEN <<Call("input_init", idx, 0, 0)>> ELSE <<>>
    /\ UNCHANGED <<cfgVars, mainVars, trace, c1Vars,
                   slotVars, modeVars, tud_ready, hwVars, histVars>>

\* outputs = app_get_output_interfaces(&output_count); active_output = outputs[0]
GetOutputs ==
    /\ pc0 = "outputs_get"
    /\ outputs' = app.outputs
    /\ active_output' = IF Len(app.outputs) > 0 /\ app.outputs[1] # "null"
                        THEN app.outputs[1] ELSE active_output
    /\ pc0' = "outputs_init"
    /\ idx' = 1
    /\ calls' = <<>>
    /\ UNCHANGED <<cfgVars, inputs, core1_actual_task, core1_task_ready,
                   trace, c1Vars, slotVars, modeVars, tud_ready, hwVars, histVars>>

\* one pass of the output init loop (or its exit); the USB device output's
\* init is usbd_init
InitOutput ==
    /\ pc0 = "outputs_init"
    /\ IF idx > Len(outputs)
       THEN /\ pc0' = "find_core1"
            /\ idx' = 1
            /\ calls' = <<>>
            /\ UNCHANGED modeVars
       ELSE /\ pc0' = pc0
            /\ idx' = idx + 1
            /\ IF outputs[idx] = "usbd"
               THEN LET u == usbd_init(cfg_tud, flash, output_mode)
                    IN /\ usbd_modes' = u.usbd_modes
                       /\ flash_settings' = u.flash_settings
                       /\ output_mode' = u.output_mode
                       /\ current_mode' = u.current_mode
                       /\ tap' = u.tap
                       /\ calls' = <<Call("output_init", idx, 0, 0)>> \o u.calls
               ELSE /\ calls' = IF outputs[idx] # "null" /\ OutputInterface(outputs[idx]).init
                                THEN <<Call("output_init", idx, 0, 0)>> ELSE <<>>
                    /\ UNCHANGED modeVars
    /\ UNCHANGED <<cfgVars, mainVars, trace, c1Vars,
                   slotVars, tud_ready, hwVars, histVars>>

\* variant: the loop does not break, the last output that has one wins
RECURSIVE LastCore1Task(_, _)
LastCore1Task(outs, i) ==
    IF i > Len(outs) THEN "NULL"
    ELSE IF LastCore1Task(outs, i + 1) # "NULL" THEN LastCore1Task(outs, i + 1)
    ELSE IF outs[i] # "null" THEN OutputInterface(outs[i]).core1_task
    ELSE "NULL"

\* the core1_task of the first output that has one, "NULL" if none
RECURSIVE FirstCore1Task(_, _)
FirstCore1Task(outs, i) ==
    IF i > Len(outs) THEN "NULL"
    ELSE IF outs[i] # "null" /\ OutputInterface(outs[i]).core1_task # "NULL"
         THEN OutputInterface(outs[i]).core1_task
         ELSE FirstCore1Task(outs, i + 1)

\* the discovery loop: core1_actual_task = outputs[i]->core1_task; break
FindCore1Task ==
    /\ pc0 = "find_core1"
    /\ core1_actual_task' = IF FirstCore1Task(outputs, 1) # "NULL"
                            THEN FirstCore1Task(outputs, 1) ELSE core1_actual_task
    /\ pc0' = "set_ready"
    /\ calls' = <<>>
    /\ UNCHANGED <<cfgVars, inputs, outputs, active_output, core1_task_ready, idx, trace,
                   c1Vars, slotVars, modeVars, tud_ready, hwVars, histVars>>

\* core1_task_ready = true
SetReady ==
    /\ pc0 = "set_ready"
    /\ core1_task_ready' = TRUE
    /\ pc0' = "sev"
    /\ calls' = <<>>
    /\ UNCHANGED <<cfgVars, inputs, outputs, active_output, core1_actual_task, idx, trace,
                   c1Vars, slotVars, modeVars, tud_ready, hwVars, histVars>>

\* __sev(); then core0_main() is entered
Sev ==
    /\ pc0 = "sev"
    /\ evt' = TRUE
    /\ pc0' = "leds_task"
    /\ calls' = <<Call("sev", 0, 0, 0)>>
    /\ UNCHANGED <<cfgVars, mainVars, idx, trace, pc1, lockout_ready, core1_running,
                   slotVars, modeVars, tud_ready, hwVars, histVars>>

(***************************************************************************)
(* Core 0: core0_main().                                                   *)
(***************************************************************************)
\* variant: storage before players
ServiceTasks_swapped == <<"leds_task", "storage_task", "players_task">>

ServiceTasks == <<"leds_task", "players_task", "storage_task">>

\* leds_task(); players_task(); storage_task();
ServiceTask ==
    /\ \E k \in DOMAIN ServiceTasks :
          /\ pc0 = ServiceTasks[k]
          /\ pc0' = IF k < Len(ServiceTasks) THEN ServiceTasks[k + 1] ELSE "outputs_task"
          /\ trace' = IF k = 1 THEN <<<<pc0, 0>>>> ELSE Append(trace, <<pc0, 0>>)
    /\ idx' = 1
    /\ calls' = <<Call(pc0, 0, 0, 0)>>
    /\ UNCHANGED <<cfgVars, mainVars, c1Vars,
                   slotVars, modeVars, tud_ready, hwVars, histVars>>

\* the tick asked the mode (or the HID stack) for readiness and was told no
TickNotReady(cs) ==
    \E k \in DOMAIN cs : cs[k].fn \in {"is_ready", "tud_hid_ready"} /\ cs[k].b = 0

\* usbd_task: tud_task, the mode's case (cdc_task, which may run a mode
\* change command; the mode's task; readiness; usbd_send_report(0))
\* (the results of a flash write and of send_report are drawn only when a
\* write or a send can take place)
UsbdTask ==
    \E ready \in BOOLEAN, ok \in BOOLEAN, cmd \in {NULL} \cup ModeArgs, save_ok \in BOOLEAN :
        LET cdc == ModeCase(output_mode, cfg_tud) \in CdcCases
            pump == <<Call("tud_task", output_mode, 0, 0)>>
                        \o (IF cdc THEN <<Call("cdc_task", 0, 0, 0)>> ELSE <<>>)
            sm == usbd_set_mode(cmd, output_mode, flash_settings, flash, watchdog, save_ok)
            t == usbd_task_send(output_mode, cfg_tud, usbd_modes, ready,
                                pending_flags, pending_events, send_log, ok)
        IN  /\ cmd # NULL => cdc
            /\ (cmd = NULL \/ ~sm.spin) => save_ok
            /\ ~pending_flags[0] => ok
            /\ tud_ready' = ready
            /\ IF cmd # NULL /\ sm.spin
               THEN /\ pc0' = "spin"
                    /\ idx' = idx
                    /\ output_mode' = sm.output_mode
                    /\ flash_settings' = sm.flash_settings
                    /\ flash' = sm.flash
                    /\ watchdog' = sm.watchdog
                    /\ calls' = pump \o sm.calls
                    /\ UNCHANGED <<pending_flags, send_log, stalled>>
               ELSE /\ pc0' = pc0
                    /\ idx' = idx + 1
                    /\ pending_flags' = t.fl
                    /\ send_log' = t.log
                    /\ stalled' = /\ pending_flags[0]
                                  /\ stalled \/ TickNotReady(t.calls)
                    /\ calls' = pump \o (IF cmd # NULL THEN sm.calls ELSE <<>>) \o t.calls
                    /\ UNCHANGED <<output_mode, flash_settings, flash, watchdog>>

\* one pass of the output task loop (or its exit)
OutputTask ==
    /\ pc0 = "outputs_task"
    /\ IF idx > Len(outputs)
       THEN /\ pc0' = "app_task"
            /\ idx' = 1
            /\ calls' = <<>>
            /\ trace' = trace
            /\ UNCHANGED <<output_mode, flash_settings, flash, watchdog,
                           pending_flags, send_log, stalled, tud_ready>>
       ELSE IF outputs[idx] = "usbd"
            THEN /\ trace' = Append(trace, <<"output_task", idx>>)
                 /\ UsbdTask
            ELSE /\ pc0' = pc0
                 /\ idx' = idx + 1
                 /\ trace' = IF outputs[idx] # "null" /\ OutputInterface(outputs[idx]).task
                             THEN Append(trace, <<"output_task", idx>>) ELSE trace
                 /\ calls' = <<>>
                 /\ UNCHANGED <<output_mode, flash_settings, flash, watchdog,
                                pending_flags, send_log, stalled, tud_ready>>
    /\ UNCHANGED <<cfgVars, mainVars, c1Vars, pending_events, usbd_modes, current_mode,
                   tap, nextId, overwritten, combo_log, boot_request>>

\* variant: a mode change re-points current_mode inside the session
AppTask_live_switch ==
    /\ pc0 = "app_task"
    /\ trace' = Append(trace, <<"app_task", 0>>)
    /\ \E cmd \in {NULL} \cup ModeArgs, save_ok \in BOOLEAN :
        LET sm == usbd_set_mode(cmd, output_mode, flash_settings, flash, watchdog, save_ok)
        IN  /\ cmd # NULL => tap = "usbd_on_input"
            /\ (cmd = NULL \/ ~sm.spin) => save_ok
            /\ IF cmd # NULL
               THEN /\ pc0' = IF sm.spin THEN "spin" ELSE "inputs_task"
                    /\ output_mode' = sm.output_mode
                    /\ current_mode' = sm.output_mode
                    /\ flash_settings' = sm.flash_settings
                    /\ flash' = sm.flash
                    /\ watchdog' = sm.watchdog
                    /\ calls' = <<Call("app_task", 0, 0, 0)>> \o sm.calls
               ELSE /\ pc0' = "inputs_task"
                    /\ calls' = <<Call("app_task", 0, 0, 0)>>
                    /\ UNCHANGED <<output_mode, current_mode, flash_settings, flash, watchdog>>
    /\ idx' = 1
    /\ UNCHANGED <<cfgVars, mainVars, c1Vars, slotVars, usbd_modes, tap,
                   tud_ready, histVars>>

\* app_task(): the app may ask for a mode change (button hotkey)
AppTask ==
    /\ pc0 = "app_task"
    /\ trace' = Append(trace, <<"app_task", 0>>)
    /\ \E cmd \in {NULL} \cup ModeArgs, save_ok \in BOOLEAN :
        LET sm == usbd_set_mode(cmd, output_mode, flash_settings, flash, watchdog, save_ok)
        IN  /\ cmd # NULL => tap = "usbd_on_input"
            /\ (cmd = NULL \/ ~sm.spin) => save_ok
            /\ IF cmd # NULL
               THEN /\ pc0' = IF sm.spin THEN "spin" ELSE "inputs_task"
                    /\ output_mode' = sm.output_mode
                    /\ flash_settings' = sm.flash_settings
                    /\ flash' = sm.flash
                    /\ watchdog' = sm.watchdog
                    /\ calls' = <<Call("app_task", 0, 0, 0)>> \o sm.calls
               ELSE /\ pc0' = "inputs_task"
                    /\ calls' = <<Call("app_task", 0, 0, 0)>>
                    /\ UNCHANGED <<output_mode, flash_settings, flash, watchdog>>
    /\ idx' = 1
    /\ UNCHANGED <<cfgVars, mainVars, c1Vars, slotVars, usbd_modes, current_mode, tap,
                   tud_ready, histVars>>

\* one pass of the input task loop (or its exit, which ends the iteration);
\* an input's task polls its hardware and publishes what it finds
InputTask ==
    /\ pc0 = "inputs_task"
    /\ IF idx > Len(inputs)
       THEN /\ pc0' = "leds_task"
            /\ idx' = 1
            /\ calls' = <<>>
            /\ trace' = trace
            /\ UNCHANGED <<slotVars, nextId, overwritten, stalled, combo_log>>
       ELSE IF inputs[idx] # "null" /\ InputInterface(inputs[idx]).task
            THEN \E burst \in Bursts(nextId) :
                    LET q == [ev |-> pending_events, fl |-> pending_flags,
                              combo |-> combo_log, over |-> overwritten]
                        r == PublishAll(q, tap, burst, nextId)
                    IN  /\ pending_events' = r.q.ev
                        /\ pending_flags' = r.q.fl
                        /\ combo_log' = r.q.combo
                        /\ overwritten' = r.q.over
                        /\ stalled' = (stalled /\ r.q.ev[0] = pending_events[0])
                        /\ nextId' = r.id
                        /\ calls' = r.calls
                        /\ trace' = Append(trace, <<"input_task", idx>>)
                        /\ pc0' = pc0
                        /\ idx' = idx + 1
            ELSE /\ pc0' = pc0
                 /\ idx' = idx + 1
                 /\ calls' = <<>>
                 /\ trace' = trace
                 /\ UNCHANGED <<slotVars, nextId, overwritten, stalled, combo_log>>
    /\ UNCHANGED <<cfgVars, mainVars, c1Vars, modeVars, tud_ready, hwVars, send_log,
                   boot_request>>

\* the watchdog fires while usbd_set_mode spins: both cores restart, RAM is
\* re-initialised, the settings sector is kept
WatchdogReset ==
    /\ pc0 = "spin"
    /\ watchdog
    /\ inputs' = <<>>
    /\ outputs' = <<>>
    /\ active_output' = "NULL"
    /\ core1_actual_task' = "NULL"
    /\ core1_task_ready' = FALSE
    /\ pc0' = "launch"
    /\ idx' = 1
    /\ trace' = <<>>
    /\ pc1' = "off"
    /\ lockout_ready' = FALSE
    /\ evt' = FALSE
    /\ core1_running' = "NULL"
    /\ usbd_modes' = NoModes
    /\ current_mode' = NULL
    /\ output_mode' = USB_OUTPUT_MODE_HID
    /\ flash_settings' = ZeroRecord
    /\ pending_events' = [p \in Players |-> 0]
    /\ pending_flags' = [p \in Players |-> FALSE]
    /\ tap' = "NULL"
    /\ tud_ready' = FALSE
    /\ watchdog' = FALSE
    /\ nextId' = 1
    /\ send_log' = <<>>
    /\ overwritten' = {}
    /\ stalled' = FALSE
    /\ combo_log' = <<>>
    /\ boot_request' = output_mode
    /\ calls' = <<>>
    /\ UNCHANGED <<cfgVars, flash>>

(***************************************************************************)
(* Core 1: core1_wrapper().                                                *)
(***************************************************************************)
\* flash_safe_execute_core_init()
Core1FlashInit ==
    /\ pc1 = "flash_init"
    /\ lockout_ready' = TRUE
    /\ pc1' = "wait"
    /\ UNCHANGED <<cfgVars, mainVars, c0Vars, evt, core1_running,
                   slotVars, modeVars, tud_ready, hwVars, histVars, calls>>

\* variant: Core 1 does not wait for the flag
Core1Check_no_wait ==
    /\ pc1 = "wait"
    /\ pc1' = "dispatch"
    /\ UNCHANGED <<cfgVars, mainVars, c0Vars, lockout_ready, evt, core1_running,
                   slotVars, modeVars, tud_ready, hwVars, histVars, calls>>

\* while (!core1_task_ready) __wfe();  -- the test of the flag
Core1Check ==
    /\ pc1 = "wait"
    /\ pc1' = IF core1_task_ready THEN "dispatch" ELSE "wfe"
    /\ UNCHANGED <<cfgVars, mainVars, c0Vars, lockout_ready, evt, core1_running,
                   slotVars, modeVars, tud_ready, hwVars, histVars, calls>>

\* __wfe() returns once the event register is set, and clears it
Core1Wake ==
    /\ pc1 = "wfe"
    /\ evt
    /\ evt' = FALSE
    /\ pc1' = "wait"
    /\ UNCHANGED <<cfgVars, mainVars, c0Vars, lockout_ready, core1_running,
                   slotVars, modeVars, tud_ready, hwVars, histVars, calls>>

\* if (core1_actual_task) core1_actual_task(); else while (1) __wfi();
Core1Dispatch ==
    /\ pc1 = "dispatch"
    /\ core1_running' = core1_actual_task
    /\ pc1' = IF core1_actual_task # "NULL" THEN "task" ELSE "idle"
    /\ UNCHANGED <<cfgVars, mainVars, c0Vars, lockout_ready, evt,
                   slotVars, modeVars, tud_ready, hwVars, histVars, calls>>

(***************************************************************************)
(* Specifications.                                                         *)
(***************************************************************************)
Core0Boot ==
    \/ LaunchCore1 \/ Sleep \/ ServiceInit \/ GetInputs \/ InitInput
    \/ GetOutputs \/ InitOutput \/ FindCore1Task \/ SetReady \/ Sev

Core0Loop == ServiceTask \/ OutputTask \/ AppTask \/ InputTask

Core1 == Core1FlashInit \/ Core1Check \/ Core1Wake \/ Core1Dispatch

Next == Core0Boot \/ Core0Loop \/ Core1 \/ WatchdogReset

NextApps == Core0Boot \/ Core0Loop \/ Core1

\* the usb2usb app: USB host input, USB device output
Spec == Init /\ [][Next]_vars

\* any app built from native outputs
SpecApps == InitApps /\ [][NextApps]_vars

(***************************************************************************)
(* Report contents: the button word, the d-pad encoder.                    *)
(***************************************************************************)
\* the JP_BUTTON_* bits of a button word; a word is the set of bits set
Dpad == {"DU", "DD", "DL", "DR"}

JpButtons ==
    Dpad \cup {"B1", "B2", "B3", "B4", "L1", "R1", "L2", "R2", "S1", "S2",
               "L3", "R3", "A1", "A2", "A3", "A4", "L4", "R4"}

\* the subsets of S with at most n elements
RECURSIVE SetsUpTo(_, _)
SetsUpTo(S, n) ==
    IF n = 0 THEN {{}}
    ELSE LET T == SetsUpTo(S, n - 1) IN T \cup {t \cup {b} : t \in T, b \in S}

\* button words without d-pad bits: few buttons pressed, or all of them
OtherWords == SetsUpTo(JpButtons \ Dpad, MaxPressed) \cup {JpButtons \ Dpad}

\* button words: any d-pad state together with other buttons
ButtonWords == {d \cup o : d \in SUBSET Dpad, o \in OtherWords}

\* variant: the single directions are tested before the diagonals
convert_dpad_to_hat_singles_first(buttons) ==
    LET up == "DU" \in buttons
        down == "DD" \in buttons
        left == "DL" \in buttons
        right == "DR" \in buttons
    IN  IF up THEN SWITCH_HAT_UP
        ELSE IF down THEN SWITCH_HAT_DOWN
        ELSE IF left THEN SWITCH_HAT_LEFT
        ELSE IF right THEN SWITCH_HAT_RIGHT
        ELSE SWITCH_HAT_CENTER

\* convert_dpad_to_hat of switch_mode.c
convert_dpad_to_hat(buttons) ==
    LET up == "DU" \in buttons
        down == "DD" \in buttons
        left == "DL" \in buttons
        right == "DR" \in buttons
    IN  IF up /\ right THEN SWITCH_HAT_UP_RIGHT
        ELSE IF up /\ left THEN SWITCH_HAT_UP_LEFT
        ELSE IF down /\ right THEN SWITCH_HAT_DOWN_RIGHT
        ELSE IF down /\ left THEN SWITCH_HAT_DOWN_LEFT
        ELSE IF up THEN SWITCH_HAT_UP
        ELSE IF down THEN SWITCH_HAT_DOWN
        ELSE IF left THEN SWITCH_HAT_LEFT
        ELSE IF right THEN SWITCH_HAT_RIGHT
        ELSE SWITCH_HAT_CENTER

\* the HID_HAT_* values of the HID-style modes (8 directions and centre)
HID_HAT ==
    [UP |-> 0, UP_RIGHT |-> 1, RIGHT |-> 2, DOWN_RIGHT |-> 3, DOWN |-> 4,
     DOWN_LEFT |-> 5, LEFT |-> 6, UP_LEFT |-> 7, CENTER |-> 8]

\* convert_dpad_to_hat of usbd.c
usbd_convert_dpad_to_hat(buttons) ==
    LET up == "DU" \in buttons
        down == "DD" \in buttons
        left == "DL" \in buttons
        right == "DR" \in buttons
    IN  IF up /\ right THEN HID_HAT.UP_RIGHT
        ELSE IF up /\ left THEN HID_HAT.UP_LEFT
        ELSE IF down /\ right THEN HID_HAT.DOWN_RIGHT
        ELSE IF down /\ left THEN HID_HAT.DOWN_LEFT
        ELSE IF up THEN HID_HAT.UP
        ELSE IF down THEN HID_HAT.DOWN
        ELSE IF left THEN HID_HAT.LEFT
        ELSE IF right THEN HID_HAT.RIGHT
        ELSE HID_HAT.CENTER

(***************************************************************************)
(* Report contents: the Switch input report.                               *)
(***************************************************************************)
\* variant: the layout the report descriptor describes, without vendor byte
switch_in_report_t_no_vendor ==
    <<[field |-> "buttons", size |-> 2], [field |-> "hat", size |-> 1],
      [field |-> "lx", size |-> 1], [field |-> "ly", size |-> 1],
      [field |-> "rx", size |-> 1], [field |-> "ry", size |-> 1]>>

\* switch_in_report_t (packed): its fields and their sizes in bytes
switch_in_report_t ==
    <<[field |-> "buttons", size |-> 2], [field |-> "hat", size |-> 1],
      [field |-> "lx", size |-> 1], [field |-> "ly", size |-> 1],
      [field |-> "rx", size |-> 1], [field |-> "ry", size |-> 1],
      [field |-> "vendor", size |-> 1]>>

\* sizeof of a packed struct
RECURSIVE sizeof(_)
sizeof(struct) ==
    IF struct = <<>> THEN 0 ELSE Head(struct).size + sizeof(Tail(struct))

\* the static switch_report before switch_mode_init (zero-initialised)
ZeroReport ==
    [buttons |-> 0, hat |-> 0, lx |-> 0, ly |-> 0, rx |-> 0, ry |-> 0, vendor |-> 0]

\* switch_mode_init
switch_mode_init(report) ==
    [buttons |-> 0, hat |-> SWITCH_HAT_CENTER,
     lx |-> SWITCH_JOYSTICK_MID, ly |-> SWITCH_JOYSTICK_MID,
     rx |-> SWITCH_JOYSTICK_MID, ry |-> SWITCH_JOYSTICK_MID, vendor |-> 0]

\* the SWITCH_MASK_* bits
SWITCH_MASK ==
    [Y |-> 2^0, B |-> 2^1, A |-> 2^2, X |-> 2^3, L |-> 2^4, R |-> 2^5,
     ZL |-> 2^6, ZR |-> 2^7, MINUS |-> 2^8, PLUS |-> 2^9, L3 |-> 2^10,
     R3 |-> 2^11, HOME |-> 2^12, CAPTURE |-> 2^13]

\* x |= mask, for a mask of one bit, in a uint16_t
OrMask(x, mask) == IF (x \div mask) % 2 = 1 THEN x ELSE (x + mask) % 2^16

\* the statements  if (buttons & JP) switch_report.buttons |= MASK;  in order
RECURSIVE OrMasks(_, _, _)
OrMasks(x, buttons, map) ==
    IF map = <<>> THEN x
    ELSE OrMasks(IF Head(map)[1] \in buttons THEN OrMask(x, Head(map)[2]) ELSE x,
                 buttons, Tail(map))

\* variant: the older switch mode (unnamed/part_000): eight buttons mapped,
\* vendor left as it is
switch_mode_send_report_eight_buttons(report, buttons, profile_out, sent) ==
    [report |->
        [buttons |-> OrMasks(0, buttons,
                        <<<<"B1", SWITCH_MASK.B>>, <<"B2", SWITCH_MASK.A>>,
                          <<"B3", SWITCH_MASK.Y>>, <<"B4", SWITCH_MASK.X>>,
                          <<"L1", SWITCH_MASK.L>>, <<"R1", SWITCH_MASK.R>>,
                          <<"L2", SWITCH_MASK.ZL>>, <<"R2", SWITCH_MASK.ZR>>>>),
         hat |-> convert_dpad_to_hat(buttons),
         lx |-> profile_out.left_x, ly |-> profile_out.left_y,
         rx |-> profile_out.right_x, ry |-> profile_out.right_y,
         vendor |-> report.vendor],
     len |-> sizeof(switch_in_report_t),
     ret |-> sent]

\* switch_mode_send_report.  report: the static switch_report; sent: what
\* tud_hid_report answers.  The report built, the length handed to the stack
\* and the value returned
switch_mode_send_report(report, buttons, profile_out, sent) ==
    [report |->
        [buttons |-> OrMasks(0, buttons,
                        <<<<"B1", SWITCH_MASK.B>>, <<"B2", SWITCH_MASK.A>>,
                          <<"B3", SWITCH_MASK.Y>>, <<"B4", SWITCH_MASK.X>>,
                          <<"L1", SWITCH_MASK.L>>, <<"R1", SWITCH_MASK.R>>,
                          <<"L2", SWITCH_MASK.ZL>>, <<"R2", SWITCH_MASK.ZR>>,
                          <<"S1", SWITCH_MASK.MINUS>>, <<"S2", SWITCH_MASK.PLUS>>,
                          <<"L3", SWITCH_MASK.L3>>, <<"R3", SWITCH_MASK.R3>>,
                          <<"A1", SWITCH_MASK.HOME>>, <<"A2", SWITCH_MASK.CAPTURE>>>>),
         hat |-> convert_dpad_to_hat(buttons),
         lx |-> profile_out.left_x, ly |-> profile_out.left_y,
         rx |-> profile_out.right_x, ry |-> profile_out.right_y,
         vendor |-> 0],
     len |-> sizeof(switch_in_report_t),
     ret |-> sent]

\* sampled stick outputs of the profile step: centred, and the extremes
ProfileOuts ==
    {[left_x |-> 128, left_y |-> 128, right_x |-> 128, right_y |-> 128],
     [left_x |-> 0, left_y |-> 255, right_x |-> 1, right_y |-> 254]}

\* what switch_report may hold when a report is built: the report of
\* switch_mode_init, or an earlier report with everything pressed
PrevReports ==
    {switch_mode_init(ZeroReport),
     switch_mode_send_report(switch_mode_init(ZeroReport), JpButtons,
        [left_x |-> 0, left_y |-> 255, right_x |-> 1, right_y |-> 254], TRUE).report}

(***************************************************************************)
(* Report contents: the profile step.                                      *)
(***************************************************************************)
\* the null pointer to a profile (built-in or custom)
NullProfile == [null |-> TRUE]

\* PROFILE_FLAG_* of a custom profile
ProfileFlags == {"SWAP_STICKS", "INVERT_LY", "INVERT_RY"}

\* button tables: the identity, and B1 and B2 exchanged
IdentityMap == [b \in JpButtons |-> b]

SwapB1B2Map == [b \in JpButtons |-> CASE b = "B1" -> "B2" [] b = "B2" -> "B1" [] OTHER -> b]

\* variant: only the buttons the table moves are kept
custom_profile_apply_buttons_moved_only(custom, buttons) ==
    {custom.button_map[b] : b \in {x \in buttons : custom.button_map[x] # x}}

\* custom_profile_apply_buttons: every pressed button becomes its table entry
custom_profile_apply_buttons(custom, buttons) ==
    {custom.button_map[b] : b \in buttons}

\* profile_apply: a null profile passes everything through; a built-in
\* profile performs its fixed button remap
profile_apply(profile, buttons, lx, ly, rx, ry, l2, r2, out) ==
    [out EXCEPT !.buttons = IF profile = NullProfile THEN buttons
                            ELSE {profile.button_map[b] : b \in buttons},
                !.left_x = lx, !.left_y = ly, !.right_x = rx, !.right_y = ry,
                !.l2_analog = l2, !.r2_analog = r2]

\* (int16_t)(rel * sens) with sens = percent / 100.0f: toward zero
ScaleRel(rel, percent) ==
    IF rel * percent >= 0 THEN (rel * percent) \div 100
    ELSE -((-(rel * percent)) \div 100)

\* (uint8_t)(128 + (int16_t)(rel * sens))
ScaleAxis(v, percent) == (128 + ScaleRel(v - 128, percent)) % 256

\* the stick sensitivity step of apply_usbd_profile
apply_stick_sensitivity(custom, out) ==
    LET left == IF custom.left_stick_sens # 100
                THEN [out EXCEPT !.left_x = ScaleAxis(@, custom.left_stick_sens),
                                 !.left_y = ScaleAxis(@, custom.left_stick_sens)]
                ELSE out
    IN IF custom.right_stick_sens # 100
       THEN [left EXCEPT !.right_x = ScaleAxis(@, custom.right_stick_sens),
                         !.right_y = ScaleAxis(@, custom.right_stick_sens)]
       ELSE left

\* variant: the inversions negate the axis instead of mirroring it
apply_profile_flags_negate(custom, out) ==
    LET swapped == IF "SWAP_STICKS" \in custom.flags
                   THEN [out EXCEPT !.left_x = out.right_x, !.left_y = out.right_y,
                                    !.right_x = out.left_x, !.right_y = out.left_y]
                   ELSE out
        inv_ly == IF "INVERT_LY" \in custom.flags
                  THEN [swapped EXCEPT !.left_y = (256 - @) % 256]
                  ELSE swapped
    IN IF "INVERT_RY" \in custom.flags
       THEN [inv_ly EXCEPT !.right_y = (256 - @) % 256]
       ELSE inv_ly

\* the profile flags step of apply_usbd_profile
apply_profile_flags(custom, out) ==
    LET swapped == IF "SWAP_STICKS" \in custom.flags
                   THEN [out EXCEPT !.left_x = out.right_x, !.left_y = out.right_y,
                                    !.right_x = out.left_x, !.right_y = out.left_y]
                   ELSE out
        inv_ly == IF "INVERT_LY" \in custom.flags
                  THEN [swapped EXCEPT !.left_y = 255 - @]
                  ELSE swapped
    IN IF "INVERT_RY" \in custom.flags
       THEN [inv_ly EXCEPT !.right_y = 255 - @]
       ELSE inv_ly

\* variant: the pressure loop stops one element early
copy_motion_pressure_eleven(event, out) ==
    [out EXCEPT !.has_motion = event.has_motion,
                !.accel = IF event.has_motion THEN [i \in 0 .. 2 |-> event.accel[i]] ELSE @,
                !.gyro = IF event.has_motion THEN [i \in 0 .. 2 |-> event.gyro[i]] ELSE @,
                !.has_pressure = event.has_pressure,
                !.pressure = IF event.has_pressure
                             THEN [i \in 0 .. 11 |-> IF i < 11 THEN event.pressure[i] ELSE @[i]]
                             ELSE @]

\* the motion and pressure step of apply_usbd_profile
copy_motion_pressure(event, out) ==
    [out EXCEPT !.has_motion = event.has_motion,
                !.accel = IF event.has_motion THEN [i \in 0 .. 2 |-> event.accel[i]] ELSE @,
                !.gyro = IF event.has_motion THEN [i \in 0 .. 2 |-> event.gyro[i]] ELSE @,
                !.has_pressure = event.has_pressure,
                !.pressure = IF event.has_pressure
                             THEN [i \in 0 .. 11 |-> IF i < 12 THEN event.pressure[i] ELSE @[i]]
                             ELSE @]

\* apply_usbd_profile.  profile: profile_get_active(OUTPUT_TARGET_USB_DEVICE);
\* custom: flash_get_active_custom_profile(); out: the caller's profile_out,
\* not initialised.  The filled profile_out; the value returned is its buttons
apply_usbd_profile(profile, custom, event, out) ==
    copy_motion_pressure(event,
        IF profile = NullProfile /\ custom # NullProfile
        THEN apply_profile_flags(custom,
                apply_stick_sensitivity(custom,
                   [profile_apply(profile, event.buttons,
                                  event.analog.LX, event.analog.LY,
                                  event.analog.RX, event.analog.RY,
                                  event.analog.L2, event.analog.R2, out)
                       EXCEPT !.buttons = custom_profile_apply_buttons(custom, @)]))
        ELSE profile_apply(profile, event.buttons,
                           event.analog.LX, event.analog.LY,
                           event.analog.RX, event.analog.RY,
                           event.analog.L2, event.analog.R2, out))

\* the caller's profile_out before the call: whatever the stack held
StackGarbage ==
    {[buttons |-> {}, left_x |-> 0, left_y |-> 0, right_x |-> 0, right_y |-> 0,
      l2_analog |-> 0, r2_analog |-> 0,
      has_motion |-> FALSE, accel |-> [i \in 0 .. 2 |-> 0], gyro |-> [i \in 0 .. 2 |-> 0],
      has_pressure |-> FALSE, pressure |-> [i \in 0 .. 11 |-> 0]],
     [buttons |-> {"A4"}, left_x |-> 171, left_y |-> 171, right_x |-> 171, right_y |-> 171,
      l2_analog |-> 171, r2_analog |-> 171,
      has_motion |-> TRUE, accel |-> [i \in 0 .. 2 |-> 171], gyro |-> [i \in 0 .. 2 |-> 171],
      has_pressure |-> TRUE, pressure |-> [i \in 0 .. 11 |-> 171]]}

\* an input event: buttons, the six analog axes, motion and pressure data
Event(buttons, lx, ly, rx, ry, has_motion, has_pressure) ==
    [buttons |-> buttons,
     analog |-> [LX |-> lx, LY |-> ly, RX |-> rx, RY |-> ry, L2 |-> 0, R2 |-> 255],
     has_motion |-> has_motion,
     accel |-> [i \in 0 .. 2 |-> 1 + i], gyro |-> [i \in 0 .. 2 |-> 4 + i],
     has_pressure |-> has_pressure, pressure |-> [i \in 0 .. 11 |-> 10 + i]]

\* sampled stick sensitivities (left, right), in percent
Sensitivities == {<<100, 100>>, <<50, 100>>, <<100, 200>>, <<200, 50>>}

\* sampled custom profiles; NullProfile: none active
Customs ==
    {NullProfile} \cup
    {[button_map |-> m, left_stick_sens |-> s[1], right_stick_sens |-> s[2], flags |-> f] :
        m \in {IdentityMap, SwapB1B2Map}, s \in Sensitivities, f \in SUBSET ProfileFlags}

\* sampled built-in profiles; NullProfile: the target has none (usb2usb)
Profiles == {NullProfile, [button_map |-> [b \in JpButtons |->
                        CASE b = "L1" -> "R1" [] b = "R1" -> "L1" [] OTHER -> b]]}

\* the custom profiles at 100 % and without flags
PlainCustoms ==
    {c \in Customs : c # NullProfile /\ c.left_stick_sens = 100 /\ c.right_stick_sens = 100
                              /\ c.flags = {}}

\* nothing but the function under study runs: RAM as after reset
InitReports ==
    /\ app = Usb2UsbApp
    /\ cfg_tud = TRUE
    /\ mode_members = DeclaredMembers
    /\ flash = BlankFlash
    /\ RamInit
    /\ HistInit

\* (each behaviour of SpecReports is one call on sampled arguments)
\* one call of each d-pad encoder, on a d-pad state alone and on the same
\* d-pad state with other buttons pressed
ConvertDpad ==
    /\ calls = <<>>
    /\ \E d \in SUBSET Dpad, o \in OtherWords :
          calls' = <<Call("convert_dpad_to_hat", d, convert_dpad_to_hat(d), 0),
                     Call("convert_dpad_to_hat", d \cup o, convert_dpad_to_hat(d \cup o), 0),
                     Call("usbd_convert_dpad_to_hat", d, usbd_convert_dpad_to_hat(d), 0),
                     Call("usbd_convert_dpad_to_hat", d \cup o,
                          usbd_convert_dpad_to_hat(d \cup o), 0)>>
    /\ UNCHANGED <<cfgVars, mainVars, c0Vars, c1Vars, slotVars, modeVars, tud_ready,
                   hwVars, histVars>>

\* one call of switch_mode_send_report
SwitchSendReport ==
    /\ calls = <<>>
    /\ \E prev \in PrevReports, w \in ButtonWords, po \in ProfileOuts, sent \in BOOLEAN :
          LET r == switch_mode_send_report(prev, w, po, sent)
          IN calls' = <<[fn |-> "switch_mode_send_report",
                         a |-> [buttons |-> w, profile_out |-> po, prev |-> prev],
                         b |-> r.report, c |-> r.ret],
                        [fn |-> "tud_hid_report", a |-> 0, b |-> r.report, c |-> r.len]>>
    /\ UNCHANGED <<cfgVars, mainVars, c0Vars, c1Vars, slotVars, modeVars, tud_ready,
                   hwVars, histVars>>

\* one call of apply_usbd_profile, and its cdc_commands_send_output_event
ApplyUsbdProfileCall(profile, custom, event, out) ==
    \E po \in {apply_usbd_profile(profile, custom, event, out)} :
       /\ calls' = <<[fn |-> "apply_usbd_profile",
                      a |-> [profile |-> profile, custom |-> custom, event |-> event,
                             out |-> out],
                      b |-> po, c |-> po.buttons],
                     [fn |-> "cdc_commands_send_output_event", a |-> po.buttons,
                      b |-> <<po.left_x, po.left_y, po.right_x, po.right_y,
                              po.l2_analog, po.r2_analog>>, c |-> 0]>>
       /\ UNCHANGED <<cfgVars, mainVars, c0Vars, c1Vars, slotVars, modeVars, tud_ready,
                      hwVars, histVars>>

\* apply_usbd_profile on every sampled button word, sticks centred
ApplyUsbdProfileWords ==
    /\ calls = <<>>
    /\ \E p \in Profiles, c \in PlainCustoms \cup {NullProfile}, w \in ButtonWords,
          g \in {o \in StackGarbage : ~o.has_motion} :
          ApplyUsbdProfileCall(p, c, Event(w, 128, 128, 128, 128, FALSE, FALSE), g)

\* apply_usbd_profile on every value 0..255 of each of the four axes, under
\* every sampled profile
ApplyUsbdProfileAxes ==
    /\ calls = <<>>
    /\ \E p \in Profiles, c \in Customs, v \in 0 .. 255, g \in StackGarbage :
          ApplyUsbdProfileCall(p, c,
              Event({"B1", "DU"}, v, 255 - v, (v + 64) % 256, (3 * v) % 256,
                    g.has_motion, ~g.has_motion), g)

\* apply_usbd_profile on an event, and again on the event its output makes
ApplyUsbdProfileTwice ==
    /\ calls = <<>>
    /\ \E c \in Customs \ {NullProfile}, v \in 0 .. 255, g \in StackGarbage :
          LET e1 == Event({"B1", "DU"}, v, 255 - v, (v + 64) % 256, (3 * v) % 256,
                          g.has_motion, ~g.has_motion)
          IN \E o1 \in {apply_usbd_profile(NullProfile, c, e1, g)} :
             \E e2 \in {Event(o1.buttons, o1.left_x, o1.left_y, o1.right_x, o1.right_y,
                              g.has_motion, ~g.has_motion)} :
             \E o2 \in {apply_usbd_profile(NullProfile, c, e2, g)} :
             /\ calls' = <<[fn |-> "apply_usbd_profile",
                            a |-> [profile |-> NullProfile, custom |-> c, event |-> e1,
                                   out |-> g],
                            b |-> o1, c |-> o1.buttons],
                           [fn |-> "cdc_commands_send_output_event", a |-> o1.buttons,
                            b |-> <<o1.left_x, o1.left_y, o1.right_x, o1.right_y,
                                    o1.l2_analog, o1.r2_analog>>, c |-> 0],
                           [fn |-> "apply_usbd_profile",
                            a |-> [profile |-> NullProfile, custom |-> c, event |-> e2,
                                   out |-> g],
                            b |-> o2, c |-> o2.buttons],
                           [fn |-> "cdc_commands_send_output_event", a |-> o2.buttons,
                            b |-> <<o2.left_x, o2.left_y, o2.right_x, o2.right_y,
                                    o2.l2_analog, o2.r2_analog>>, c |-> 0]>>
             /\ UNCHANGED <<cfgVars, mainVars, c0Vars, c1Vars, slotVars, modeVars,
                            tud_ready, hwVars, histVars>>

NextReports ==
    \/ ConvertDpad
    \/ SwitchSendReport
    \/ ApplyUsbdProfileWords
    \/ ApplyUsbdProfileAxes
    \/ ApplyUsbdProfileTwice

\* the report-building functions applied to sampled inputs
SpecReports == InitReports /\ [][NextReports]_vars

(***************************************************************************)
(* USB stack callbacks and the feedback getters of the output interface.   *)
(* Each operator returns what the function returns and the calls it makes  *)
(* through a mode's members.                                               *)
(***************************************************************************)
\* a call that reports what an entry point returned
Ret(fn, a, ret) == [fn |-> fn, a |-> a, b |-> 0, c |-> 0, ret |-> ret]

\* the members reached through a usbd_mode_t pointer, by the name of the call
MemberOf(md, fn) ==
    CASE fn = "mode_init" -> md.init
      [] fn = "mode_task" -> md.task
      [] fn = "is_ready" -> md.is_ready
      [] fn = "send_report" -> md.send_report
      [] fn = "get_rumble" -> md.get_rumble
      [] fn = "get_feedback" -> md.get_feedback
      [] fn = "get_report" -> md.get_report
      [] fn = "handle_output" -> md.handle_output
      [] fn = "get_class_driver" -> md.get_class_driver
      [] fn = "get_report_descriptor" -> md.get_report_descriptor

MemberCalls ==
    {"mode_init", "mode_task", "is_ready", "send_report", "get_rumble", "get_feedback",
     "get_report", "handle_output", "get_class_driver", "get_report_descriptor"}

\* the modes whose case of usbd_get_rumble and usbd_get_feedback asks the mode
FeedbackCases(cfg) ==
    {USB_OUTPUT_MODE_XBOX_ORIGINAL, USB_OUTPUT_MODE_PS3, USB_OUTPUT_MODE_PS4}
        \cup (IF cfg THEN {USB_OUTPUT_MODE_XINPUT, USB_OUTPUT_MODE_GC_ADAPTER} ELSE {})

\* variant: the member is called without the test that it is populated
usbd_get_rumble_unguarded(om, cfg, reg, val) ==
    IF om \in FeedbackCases(cfg) /\ reg[om]
    THEN [ret |-> val, calls |-> <<Call("get_rumble", om, 0, 0)>>]
    ELSE [ret |-> 0, calls |-> <<>>]

\* usbd_get_rumble.  val: what the mode's get_rumble returns
usbd_get_rumble(om, cfg, reg, val) ==
    IF om \in FeedbackCases(cfg) /\ reg[om] /\ usbd_mode(om).get_rumble
    THEN [ret |-> val, calls |-> <<Call("get_rumble", om, 0, 0)>>]
    ELSE [ret |-> 0, calls |-> <<>>]

\* an output_feedback_t with every field reset
ZeroFeedback ==
    [rumble_left |-> 0, rumble_right |-> 0, led_player |-> 0,
     led_r |-> 0, led_g |-> 0, led_b |-> 0, dirty |-> FALSE]

\* an output_feedback_t as an earlier read may have left it
StaleFeedback ==
    [rumble_left |-> 200, rumble_right |-> 100, led_player |-> 1,
     led_r |-> 10, led_g |-> 20, led_b |-> 30, dirty |-> TRUE]

\* what a mode's get_feedback may do to the record it is given: nothing, or
\* report rumble
ModeWrites == {"none", "rumble"}

mode_get_feedback(s, wr) ==
    IF wr = "rumble"
    THEN [s EXCEPT !.rumble_left = 255, !.rumble_right = 128, !.dirty = TRUE]
    ELSE s

\* what usbd_get_feedback returned, with the caller's record before and after
FeedbackRet(a, ret, old, new) ==
    [fn |-> "usbd_get_feedback", a |-> a, b |-> 0, c |-> 0, ret |-> ret,
     old |-> old, fb |-> new]

\* variant: the record is handed on as the caller left it
usbd_get_feedback_no_reset(fb, old, om, cfg, reg, val, wr) ==
    IF ~fb
    THEN [ret |-> FALSE, calls |-> <<>>, fb |-> old]
    ELSE IF om \in FeedbackCases(cfg) /\ reg[om] /\ usbd_mode(om).get_feedback
         THEN [ret |-> val, calls |-> <<Call("get_feedback", om, 0, 0)>>,
               fb |-> mode_get_feedback(old, wr)]
         ELSE [ret |-> FALSE, calls |-> <<>>, fb |-> old]

\* usbd_get_feedback.  fb: whether the caller passed a record, old: what the
\* record holds; val: what the mode's get_feedback returns, wr: what it writes
usbd_get_feedback(fb, old, om, cfg, reg, val, wr) ==
    IF ~fb
    THEN [ret |-> FALSE, calls |-> <<>>, fb |-> old]
    ELSE LET z == [old EXCEPT !.rumble_left = 0, !.rumble_right = 0,
                              !.led_player = 0,
                              !.led_r = 0, !.led_g = 0, !.led_b = 0,
                              !.dirty = FALSE]
         IN  IF om \in FeedbackCases(cfg) /\ reg[om] /\ usbd_mode(om).get_feedback
             THEN [ret |-> val, calls |-> <<Call("get_feedback", om, 0, 0)>>,
                   fb |-> mode_get_feedback(z, wr)]
             ELSE [ret |-> FALSE, calls |-> <<>>, fb |-> z]

\* what a mode's get_class_driver returns
ClassDriver(m) ==
    CASE m = USB_OUTPUT_MODE_XBOX_ORIGINAL -> "tud_xid_class_driver"
      [] m = USB_OUTPUT_MODE_XINPUT -> "tud_xinput_class_driver"
      [] m = USB_OUTPUT_MODE_XBONE -> "tud_xbone_class_driver"
      [] m = USB_OUTPUT_MODE_GC_ADAPTER -> "tud_gc_adapter_class_driver"
      [] OTHER -> "mode_class_driver"

\* variant: the XInput driver is returned whatever the mode
usbd_app_driver_get_cb_always_xinput(om, cfg, reg) ==
    [driver_count |-> 1, ret |-> "tud_xinput_class_driver", calls |-> <<>>]

\* usbd_app_driver_get_cb
usbd_app_driver_get_cb(om, cfg, reg) ==
    LET none == [driver_count |-> 0, ret |-> "NULL", calls |-> <<>>]
        asked == IF reg[om] /\ usbd_mode(om).get_class_driver
                 THEN [driver_count |-> 1, ret |-> ClassDriver(om),
                       calls |-> <<Call("get_class_driver", om, 0, 0)>>]
                 ELSE none
    IN  CASE om = USB_OUTPUT_MODE_XBOX_ORIGINAL -> asked
          [] om = USB_OUTPUT_MODE_XINPUT /\ cfg ->
                [driver_count |-> 1, ret |-> "tud_xinput_class_driver", calls |-> <<>>]
          [] om = USB_OUTPUT_MODE_XBONE -> asked
          [] om = USB_OUTPUT_MODE_GC_ADAPTER /\ cfg -> asked
          [] OTHER -> none

\* what a mode's get_report_descriptor returns
ReportDescriptor(m) ==
    CASE m = USB_OUTPUT_MODE_SWITCH -> "switch_report_descriptor"
      [] m = USB_OUTPUT_MODE_PS3 -> "ps3_report_descriptor"
      [] m = USB_OUTPUT_MODE_PSCLASSIC -> "psclassic_report_descriptor"
      [] m = USB_OUTPUT_MODE_PS4 -> "ps4_report_descriptor"
      [] m = USB_OUTPUT_MODE_XAC -> "xac_report_descriptor"
      [] m = USB_OUTPUT_MODE_KEYBOARD_MOUSE -> "kbmouse_report_descriptor"
      [] m = USB_OUTPUT_MODE_GC_ADAPTER -> "gc_adapter_report_descriptor"
      [] m = USB_OUTPUT_MODE_HID -> "hid_report_descriptor"
      [] OTHER -> "mode_report_descriptor"

\* tud_hid_descriptor_report_cb
tud_hid_descriptor_report_cb(om, cfg, reg) ==
    LET generic == [ret |-> "hid_report_descriptor", calls |-> <<>>]
    IN  IF om \in {USB_OUTPUT_MODE_SWITCH, USB_OUTPUT_MODE_PS3,
                   USB_OUTPUT_MODE_PSCLASSIC, USB_OUTPUT_MODE_PS4}
        THEN [generic EXCEPT !.ret = ReportDescriptor(om)]
        ELSE IF /\ \/ om \in {USB_OUTPUT_MODE_XAC, USB_OUTPUT_MODE_KEYBOARD_MOUSE}
                   \/ om = USB_OUTPUT_MODE_GC_ADAPTER /\ cfg
                /\ reg[om] /\ usbd_mode(om).get_report_descriptor
        THEN [ret |-> ReportDescriptor(om),
              calls |-> <<Call("get_report_descriptor", om, 0, 0)>>]
        ELSE generic

\* tud_hid_get_report_cb.  result: what the mode's get_report returns;
\* the default is a copy of the current input report
tud_hid_get_report_cb(om, reg, result) ==
    IF om \in {USB_OUTPUT_MODE_PS3, USB_OUTPUT_MODE_PS4}
       /\ reg[om] /\ usbd_mode(om).get_report
    THEN [ret |-> IF result > 0 THEN "get_report" ELSE "hid_report",
          calls |-> <<Call("get_report", om, result, 0)>>]
    ELSE [ret |-> "hid_report", calls |-> <<>>]

\* tud_hid_set_report_cb.  feature: the report type is HID_REPORT_TYPE_FEATURE
tud_hid_set_report_cb(om, cfg, reg, feature) ==
    LET asks == \/ om \in {USB_OUTPUT_MODE_KEYBOARD_MOUSE, USB_OUTPUT_MODE_PS3,
                           USB_OUTPUT_MODE_PS4}
                \/ om = USB_OUTPUT_MODE_GC_ADAPTER /\ cfg
    IN [ret |-> "void",
        calls |-> (IF asks /\ reg[om] /\ usbd_mode(om).handle_output
                   THEN <<Call("handle_output", om, 0, 0)>> ELSE <<>>)
                  \o (IF om = USB_OUTPUT_MODE_PS4 /\ feature
                      THEN <<Call("ps4_mode_set_feature_report", 0, 0, 0)>> ELSE <<>>)]

\* CFG_TUD_CDC of the build: both CDC interfaces
CFG_TUD_CDC == 2

TUSB_DESC_STRING == 3

USB_SERIAL_LEN == 12

\* the longest string a descriptor buffer of 32 words carries
MaxDescChars == 31

NullDescriptor == [null |-> TRUE]

\* the manufacturer and product macros tud_descriptor_string_cb selects
ModeStringPrefix(om) ==
    CASE om = USB_OUTPUT_MODE_XINPUT -> "XINPUT"
      [] om = USB_OUTPUT_MODE_SWITCH -> "SWITCH"
      [] om = USB_OUTPUT_MODE_PS3 -> "PS3"
      [] om = USB_OUTPUT_MODE_PSCLASSIC -> "PSCLASSIC"
      [] om = USB_OUTPUT_MODE_PS4 -> "PS4"
      [] om = USB_OUTPUT_MODE_XBONE -> "XBONE"
      [] om = USB_OUTPUT_MODE_XAC -> "XAC"
      [] om = USB_OUTPUT_MODE_KEYBOARD_MOUSE -> "USB_KBMOUSE"
      [] om = USB_OUTPUT_MODE_GC_ADAPTER -> "GC_ADAPTER"
      [] OTHER -> "USB_HID"

\* the descriptor built from count characters of str
StringDescriptor(str, count) ==
    [type |-> TUSB_DESC_STRING, bLength |-> 2 * count + 2, str |-> str, count |-> count]

\* the descriptor built from a C string of strlen len
EncodeString(str, len) ==
    StringDescriptor(str, IF len > MaxDescChars THEN MaxDescChars ELSE len)

\* variant: the character count is not capped
tud_descriptor_string_cb_uncapped(index, om, len) ==
    CASE index = 0 -> StringDescriptor(<<"LANGID", "0x0409">>, 1)
      [] index = 1 -> StringDescriptor(<<ModeStringPrefix(om), "MANUFACTURER">>, len)
      [] index = 2 -> StringDescriptor(<<ModeStringPrefix(om), "PRODUCT">>, len)
      [] index = 3 -> StringDescriptor(<<"SERIAL", "usb_serial_str">>, USB_SERIAL_LEN)
      [] OTHER -> NullDescriptor

\* tud_descriptor_string_cb.  len: strlen of the manufacturer or product
\* macro the index selects
tud_descriptor_string_cb(index, om, len) ==
    IF om = USB_OUTPUT_MODE_XBOX_ORIGINAL THEN NullDescriptor
    ELSE IF om = USB_OUTPUT_MODE_XBONE
    THEN CASE index = 0 -> StringDescriptor(<<"LANGID", "0x0409">>, 1)
           [] index = 1 -> EncodeString(<<"XBONE", "MANUFACTURER">>, len)
           [] index = 2 -> EncodeString(<<"XBONE", "PRODUCT">>, len)
           [] index = 3 -> EncodeString(<<"SERIAL", "usb_serial_str">>, USB_SERIAL_LEN)
           [] OTHER -> NullDescriptor
    ELSE CASE index = 0 -> StringDescriptor(<<"LANGID", "0x0409">>, 1)
           [] index = 1 -> EncodeString(<<ModeStringPrefix(om), "MANUFACTURER">>, len)
           [] index = 2 -> EncodeString(<<ModeStringPrefix(om), "PRODUCT">>, len)
           [] index = 3 -> EncodeString(<<"SERIAL", "usb_serial_str">>, USB_SERIAL_LEN)
           [] index = 4 /\ CFG_TUD_CDC >= 1 -> EncodeString(<<"CDC_DATA", "Joypad Data">>, 11)
           [] index = 5 /\ CFG_TUD_CDC >= 2 -> EncodeString(<<"CDC_DEBUG", "Joypad Debug">>, 12)
           [] OTHER -> NullDescriptor

(***************************************************************************)
(* The booted firmware at the output task, in any mode, and the entry      *)
(* points of the USB device output that run there.                         *)
(***************************************************************************)
\* a mode table with every member populated, or none
UniformMembers(b) ==
    [m \in Modes |->
        [init |-> b, send_report |-> b, is_ready |-> b, get_report_descriptor |-> b,
         handle_output |-> b, get_rumble |-> b, get_feedback |-> b,
         get_report |-> b, get_class_driver |-> b, task |-> b]]

\* a mode table with the mandatory members only
MandatoryMembers ==
    [m \in Modes |->
        [UniformMembers(FALSE)[m] EXCEPT !.init = TRUE, !.send_report = TRUE,
                                         !.is_ready = TRUE]]

\* member tables a build may hold
MemberTables ==
    {DeclaredMembers, MandatoryMembers, UniformMembers(FALSE), UniformMembers(TRUE)}

\* the mode byte of a valid settings sector
ModeImages ==
    {[valid |-> TRUE, rec |-> [usb_output_mode |-> m, active_profile_index |-> 1,
            custom_profiles |-> 2]] :
        m \in Modes}

\* strlen of a manufacturer or product macro
StringLens == {8, 14, 31, 32, 40}

\* string indices a host asks for
StringIndices == 0 .. 7

\* Core 0 enters the output task loop after a boot from image f with n
\* events published to the first n players
InitTick ==
    /\ app = Usb2UsbApp
    /\ cfg_tud \in BOOLEAN
    /\ mode_members \in MemberTables
    /\ flash \in ModeImages
    /\ inputs = app.inputs
    /\ outputs = app.outputs
    /\ active_output = "usbd"
    /\ core1_actual_task = "NULL"
    /\ core1_task_ready = TRUE
    /\ pc0 = "outputs_task"
    /\ idx = 1
    /\ trace = <<<<"leds_task", 0>>, <<"players_task", 0>>, <<"storage_task", 0>>>>
    /\ pc1 = "wait"
    /\ lockout_ready = TRUE
    /\ evt = TRUE
    /\ core1_running = "NULL"
    /\ \E u \in {usbd_init(cfg_tud, flash, USB_OUTPUT_MODE_HID)} :
          /\ usbd_modes = u.usbd_modes
          /\ current_mode = u.current_mode
          /\ output_mode = u.output_mode
          /\ flash_settings = u.flash_settings
          /\ tap = u.tap
    /\ \E n \in 0 .. MaxEvents :
          /\ pending_events = [p \in Players |-> IF p < n THEN p + 1 ELSE 0]
          /\ pending_flags = [p \in Players |-> p < n]
          /\ nextId = n + 1
          /\ combo_log = IF n >= 1 THEN <<[ev |-> 1, slot |-> 0]>> ELSE <<>>
    /\ tud_ready \in BOOLEAN
    /\ watchdog = FALSE
    /\ send_log = <<>>
    /\ overwritten = {}
    /\ stalled = FALSE
    /\ boot_request = NULL
    /\ calls = <<>>

\* a request of the host served inside tud_task: one of the descriptor and
\* HID callbacks
TudCallback ==
    /\ pc0 = "outputs_task" /\ idx = 1 /\ calls = <<>>
    /\ \/ \E index \in StringIndices, len \in StringLens :
            calls' = <<[Ret("tud_descriptor_string_cb", index,
                            tud_descriptor_string_cb(index, output_mode, len))
                            EXCEPT !.b = len]>>
       \/ \E r \in {usbd_app_driver_get_cb(output_mode, cfg_tud, usbd_modes)} :
            calls' = r.calls \o <<Ret("usbd_app_driver_get_cb", r.driver_count, r.ret)>>
       \/ \E r \in {tud_hid_descriptor_report_cb(output_mode, cfg_tud, usbd_modes)} :
            calls' = r.calls \o <<Ret("tud_hid_descriptor_report_cb", 0, r.ret)>>
       \/ \E result \in {0, 8} :
            \E r \in {tud_hid_get_report_cb(output_mode, usbd_modes, result)} :
                calls' = r.calls \o <<Ret("tud_hid_get_report_cb", result, r.ret)>>
       \/ \E feature \in BOOLEAN :
            \E r \in {tud_hid_set_report_cb(output_mode, cfg_tud, usbd_modes, feature)} :
                calls' = r.calls \o <<Ret("tud_hid_set_report_cb", 0, r.ret)>>
    /\ UNCHANGED <<cfgVars, mainVars, c0Vars, c1Vars, slotVars, modeVars, tud_ready,
                   hwVars, nextId, send_log, overwritten, stalled, combo_log, boot_request>>

\* the feedback getters of the output interface, polled between tasks
FeedbackPoll ==
    /\ pc0 = "outputs_task" /\ idx = 1 /\ calls = <<>>
    /\ \/ \E val \in {0, 200} :
            \E r \in {usbd_get_rumble(output_mode, cfg_tud, usbd_modes, val)} :
                calls' = r.calls \o <<Ret("usbd_get_rumble", val, r.ret)>>
       \/ \E fb \in BOOLEAN, old \in {ZeroFeedback, StaleFeedback},
             val \in BOOLEAN, wr \in ModeWrites :
            \E r \in {usbd_get_feedback(fb, old, output_mode, cfg_tud, usbd_modes,
                                        val, wr)} :
                calls' = r.calls \o
                            <<FeedbackRet(IF fb THEN 1 ELSE 0, r.ret, old, r.fb)>>
    /\ UNCHANGED <<cfgVars, mainVars, c0Vars, c1Vars, slotVars, modeVars, tud_ready,
                   hwVars, nextId, send_log, overwritten, stalled, combo_log, boot_request>>

\* usbd_get_next_mode
usbd_get_next_mode(om) ==
    CASE om = USB_OUTPUT_MODE_HID -> USB_OUTPUT_MODE_XINPUT
      [] om = USB_OUTPUT_MODE_XINPUT -> USB_OUTPUT_MODE_PS3
      [] om = USB_OUTPUT_MODE_PS3 -> USB_OUTPUT_MODE_PS4
      [] om = USB_OUTPUT_MODE_PS4 -> USB_OUTPUT_MODE_SWITCH
      [] om = USB_OUTPUT_MODE_SWITCH -> USB_OUTPUT_MODE_KEYBOARD_MOUSE
      [] OTHER -> USB_OUTPUT_MODE_HID

\* usbd_reset_to_hid
usbd_reset_to_hid(om, fs, f, wd, save_ok) ==
    IF om # USB_OUTPUT_MODE_HID
    THEN [usbd_set_mode(USB_OUTPUT_MODE_HID, om, fs, f, wd, save_ok) EXCEPT !.ret = TRUE]
    ELSE [ret |-> FALSE, spin |-> FALSE, output_mode |-> om,
          flash_settings |-> fs, flash |-> f, watchdog |-> wd, calls |-> <<>>]

\* the app's task uses the mode API: it asks for the next mode of the cycle,
\* resets to HID, or requests a mode (the active one included)
ModeApi ==
    /\ pc0 = "app_task" /\ calls = <<>>
    /\ trace' = Append(trace, <<"app_task", 0>>)
    /\ idx' = 1
    /\ \/ /\ calls' = <<Ret("usbd_get_next_mode", output_mode,
                            usbd_get_next_mode(output_mode))>>
          /\ pc0' = "inputs_task"
          /\ UNCHANGED <<output_mode, flash_settings, flash, watchdog>>
       \/ \E save_ok \in BOOLEAN :
            \E r \in {usbd_reset_to_hid(output_mode, flash_settings, flash,
                                        watchdog, save_ok)} :
                /\ calls' = r.calls \o
                            <<Ret("usbd_reset_to_hid", output_mode, r.ret)>>
                /\ pc0' = IF r.spin THEN "spin" ELSE "inputs_task"
                /\ output_mode' = r.output_mode
                /\ flash_settings' = r.flash_settings
                /\ flash' = r.flash
                /\ watchdog' = r.watchdog
       \/ \E cmd \in ModeArgs \cup {output_mode}, save_ok \in BOOLEAN :
            \E r \in {usbd_set_mode(cmd, output_mode, flash_settings, flash,
                                    watchdog, save_ok)} :
                /\ calls' = r.calls
                /\ pc0' = IF r.spin THEN "spin" ELSE "inputs_task"
                /\ output_mode' = r.output_mode
                /\ flash_settings' = r.flash_settings
                /\ flash' = r.flash
                /\ watchdog' = r.watchdog
    /\ UNCHANGED <<cfgVars, mainVars, c1Vars, slotVars, usbd_modes, current_mode, tap,
                   tud_ready, histVars>>

NextTick ==
    \/ OutputTask
    \/ TudCallback
    \/ FeedbackPoll
    \/ ModeApi

SpecTick == InitTick /\ [][NextTick]_vars

(***************************************************************************)
(* Properties.                                                             *)
(***************************************************************************)

\* C1: latest wins.  When an event A waiting in a player's slot is replaced
\* by a later event B before usbd_task consumed it, A is never given to the
\* profile step nor to the mode's send_report, on this tick or any later one:
\* what is sent is the event the slot holds at the time of the send.
C1_LatestWins ==
    /\ \A k \in DOMAIN send_log : send_log[k].ev \notin overwritten
    /\ \A k \in DOMAIN calls :
          /\ calls[k].fn = "apply_usbd_profile" => calls[k].b \notin overwritten
          /\ calls[k].fn = "send_report" =>
                /\ calls[k].c \notin overwritten
                /\ calls[k].c = pending_events[calls[k].b]

\* C1 happens: event 1 was replaced in its slot by event 2, and 2 was sent
C1_Witness ==
    /\ 1 \in overwritten
    /\ \E k \in DOMAIN send_log : send_log[k].ev = 2 /\ send_log[k].player = 0

\* C2: on every tick of usbd_task on which the readiness test answers true,
\* every player whose slot is valid has the slot consumed and a report sent.
C2_EveryPlayerConsumed ==
    [][(/\ pc0 = "outputs_task"
        /\ idx' # idx
        /\ \E k \in DOMAIN calls' : calls'[k].fn = "is_ready" /\ calls'[k].b = 1)
       => \A p \in Players :
             pending_flags[p] =>
                /\ ~pending_flags'[p]
                /\ \E k \in DOMAIN send_log' :
                      /\ k > Len(send_log)
                      /\ send_log'[k].player = p]_vars

\* C3: on a tick of usbd_task on which the readiness test (the mode's
\* is_ready, or tud_hid_ready for HID and PS4) answers false, no report is
\* sent and the slots of all players are left as they are.
C3_NotReadyKeepsEvent ==
    [][(/\ pc0 = "outputs_task"
        /\ idx' # idx
        /\ \E k \in DOMAIN calls' :
              calls'[k].fn \in {"is_ready", "tud_hid_ready"} /\ calls'[k].b = 0)
       => /\ pending_flags' = pending_flags
          /\ pending_events' = pending_events
          /\ send_log' = send_log
          /\ \A k \in DOMAIN calls' :
                calls'[k].fn \notin {"send_report", "apply_usbd_profile"}]_vars

\* C3 happens: a tick found the device not ready while player 0's event waits
C3_Witness ==
    /\ pc0 = "outputs_task"
    /\ idx = 2
    /\ pending_flags[0]
    /\ \E k \in DOMAIN calls :
          calls[k].fn \in {"is_ready", "tud_hid_ready"} /\ calls[k].b = 0

\* C4: a publish with a player index of USB_MAX_PLAYERS or more, or with a
\* null event, changes no slot, sets no flag and does not reach the profile
\* switch combo check: in one poll of an input, a player's slot changes only
\* when a valid publish names that player, and the combo check runs once per
\* valid publish of player 0.
C4_InvalidPublishIgnored ==
    [][(pc0 = "inputs_task" /\ idx' # idx /\ tap = "usbd_on_input")
       => LET valid == {k \in DOMAIN calls' :
                           /\ calls'[k].fn = "publish"
                           /\ calls'[k].a < USB_MAX_PLAYERS
                           /\ calls'[k].b # NULL}
          IN  /\ \A p \in Players :
                    (\A k \in valid : calls'[k].a # p) =>
                        /\ pending_events'[p] = pending_events[p]
                        /\ pending_flags'[p] = pending_flags[p]
              /\ Len(combo_log') =
                    Len(combo_log) + Cardinality({k \in valid : calls'[k].a = 0})]_vars

\* C4 happens: the tap was called with an index out of range, and with a
\* null event
C4_Witness ==
    /\ tap = "usbd_on_input"
    /\ pc0 = "inputs_task"
    /\ idx = 2
    /\ \E k \in DOMAIN calls :
          /\ calls[k].fn = "publish"
          /\ calls[k].a >= USB_MAX_PLAYERS \/ calls[k].b = NULL

C6_Handshake ==
    /\ pc1 \in {"dispatch", "task", "idle"} => core1_task_ready
    /\ core1_task_ready =>
          pc0 \notin {"launch", "sleep", "leds_init", "storage_init", "players_init",
                      "app_init", "inputs_get", "inputs_init", "outputs_get",
                      "outputs_init", "find_core1", "set_ready"}
    /\ pc1 \in {"task", "idle"} => core1_running = core1_actual_task
    /\ pc0 \in {"leds_task", "players_task", "storage_task", "outputs_task",
                "app_task", "inputs_task"} =>
          /\ core1_task_ready
          /\ ~(pc1 = "wfe" /\ ~evt)

\* C6 happens: Core 1 went to sleep before the flag was set, was woken, and
\* runs its task while Core 0 is in the main loop
C6_Witness ==
    /\ pc1 = "task"
    /\ core1_running # "NULL"
    /\ ~evt
    /\ pc0 = "app_task"

\* C7: in every interleaving, Core 1 has completed
\* flash_safe_execute_core_init before Core 0 executes the first service
\* init, hence before any init of Core 0 that may access flash.
C7_LockoutBeforeInits ==
    pc0 \notin {"launch", "sleep", "leds_init"} => lockout_ready

\* C8: the task run on Core 1 is the core1_task of the first output, in
\* enumeration order, that has one; no other core1_task is run; with none,
\* Core 1 runs no task and idles.
C8_Core1Binding ==
    LET cands == {i \in DOMAIN outputs :
                    outputs[i] # "null" /\ OutputInterface(outputs[i]).core1_task # "NULL"}
        first == CHOOSE i \in cands : \A j \in cands : i <= j
    IN  /\ pc1 \notin {"task", "idle"} => core1_running = "NULL"
        /\ pc1 \in {"task", "idle"} =>
              IF cands = {}
              THEN pc1 = "idle" /\ core1_running = "NULL"
              ELSE pc1 = "task" /\ core1_running = OutputInterface(outputs[first]).core1_task

\* C8 happens: two outputs have a core1_task, Core 1 runs the first one's
C8_Witness ==
    /\ outputs = <<"natA", "natB">>
    /\ pc1 = "task"
    /\ core1_running = "natA_core1"

\* C9: usbd_set_mode with a target of USB_OUTPUT_MODE_COUNT or more, or
\* outside the supported set, answers false and leaves flash_settings, the
\* settings sector, output_mode and the watchdog as they were.
C9_SetModeValidation ==
    [][\A k \in DOMAIN calls' :
          (/\ calls'[k].fn = "usbd_set_mode"
           /\ pc0 \in {"outputs_task", "app_task"}
           /\ calls'[k].a >= USB_OUTPUT_MODE_COUNT \/ calls'[k].a \notin SupportedModes)
          => /\ calls'[k].b = 0
             /\ flash_settings' = flash_settings
             /\ flash' = flash
             /\ output_mode' = output_mode
             /\ watchdog' = watchdog
             /\ pc0' # "spin"]_vars

\* C9 happens: usbd_set_mode was called with a target out of range
C9_Witness ==
    \E k \in DOMAIN calls :
        /\ calls[k].fn = "usbd_set_mode"
        /\ calls[k].a >= USB_OUTPUT_MODE_COUNT
        /\ calls[k].b = 0

\* C10: for every supported mode m other than the current one,
\* usbd_set_mode(m) has the settings sector hold usb_output_mode = m before
\* it arms the watchdog, and does not return; after the reset, once usbd_init
\* ran, output_mode is m and the device descriptor is m's.
C10_ModeChangeProtocol ==
    /\ [][\A k \in DOMAIN calls' :
             (/\ calls'[k].fn = "usbd_set_mode"
              /\ pc0 \in {"outputs_task", "app_task"}
              /\ pc0' # pc0 \/ idx' # idx
              /\ calls'[k].a \in SupportedModes
              /\ calls'[k].a # output_mode)
             => /\ flash'.valid
                /\ flash'.rec.usb_output_mode = calls'[k].a
                /\ \E i, j \in DOMAIN calls' :
                      /\ i < j
                      /\ calls'[i].fn = "flash_save_now"
                      /\ calls'[j].fn = "watchdog_enable"
                /\ watchdog'
                /\ pc0' = "spin"]_vars
    /\ [](boot_request # NULL /\ tap = "usbd_on_input" /\ pc0 # "spin"
            => /\ output_mode = boot_request
               /\ tud_descriptor_device_cb(output_mode)
                    = tud_descriptor_device_cb(boot_request))

\* C11: when the save of the new mode fails (flash_save_now reports failure,
\* or the verifying flash_load fails or reads back another mode),
\* usbd_set_mode does not arm the watchdog, does not end in the reset spin,
\* and output_mode stays as it was.
C11_FlashFailureAborts ==
    [][\A k \in DOMAIN calls' :
          (/\ pc0 \in {"outputs_task", "app_task"}
           /\ pc0' # pc0 \/ idx' # idx
           /\ \/ calls'[k].fn = "flash_save_now" /\ calls'[k].b = 0
              \/ /\ calls'[k].fn = "flash_load"
                 /\ \E i \in DOMAIN calls' :
                       /\ calls'[i].fn = "usbd_set_mode"
                       /\ calls'[k].a = 0 \/ calls'[k].b # calls'[i].a)
          => /\ watchdog' = watchdog
             /\ output_mode' = output_mode
             /\ pc0' # "spin"]_vars

\* C12: when the persisted usb_output_mode is not a populated entry of the
\* mode registry (an id of USB_OUTPUT_MODE_COUNT or more, or a mode whose
\* registration is compiled out), usbd_init ends with output_mode = HID and
\* current_mode the HID mode, never null.
C12_UnregisteredFallsBack ==
    (/\ tap = "usbd_on_input"
     /\ pc0 # "spin"
     /\ flash.valid
     /\ \/ flash.rec.usb_output_mode \notin Modes
        \/ ~usbd_modes[flash.rec.usb_output_mode])
    => /\ output_mode = USB_OUTPUT_MODE_HID
       /\ current_mode = USB_OUTPUT_MODE_HID

C14_WriteOnceModeState ==
    [][(usbd_modes' # usbd_modes \/ current_mode' # current_mode)
       => \/ /\ pc0 = "outputs_init"
             /\ tap = "NULL"
             /\ tap' = "usbd_on_input"
             /\ usbd_modes = [m \in Modes |-> FALSE]
             /\ current_mode = NULL
          \/ /\ pc0 = "spin"
             /\ pc0' = "launch"]_vars

\* C14 happens: a mode change went through to the reset spin and current_mode
\* still is the mode selected at boot
C14_Witness ==
    /\ pc0 = "spin"
    /\ current_mode = USB_OUTPUT_MODE_HID
    /\ output_mode = USB_OUTPUT_MODE_SWITCH
    /\ usbd_modes[USB_OUTPUT_MODE_SWITCH]

\* C15: between the end of usbd_init and the reset, every run of the USB
\* stack pump (tud_task, also the ones usbd_set_mode makes through
\* flush_debug_output) has the descriptor callbacks answer for the mode
\* selected at boot: the mode they switch on is the boot's output_mode and
\* the device descriptor is that mode's.
C15_NoIdentityChange ==
    [][\A k \in DOMAIN calls' :
          (/\ pc0 \in {"outputs_task", "app_task"}
           /\ pc0' # pc0 \/ idx' # idx
           /\ calls'[k].fn \in {"tud_task", "flush_debug_output"})
          => /\ calls'[k].a = output_mode
             /\ tud_descriptor_device_cb(calls'[k].a)
                  = tud_descriptor_device_cb(output_mode)]_vars

\* C16: the d-pad encoders are total on the 16 d-pad states, answer a value
\* in 0..8, CENTER (8) with no direction pressed, and UP=0, UP_RIGHT=1,
\* RIGHT=2, DOWN_RIGHT=3, DOWN=4, DOWN_LEFT=5, LEFT=6, UP_LEFT=7 for {U},
\* {U,R}, {R}, {D,R}, {D}, {D,L}, {L}, {U,L}; the answer depends on the four
\* d-pad bits of the button word only.
C16_DpadCanonical ==
    \A k \in DOMAIN calls :
        calls[k].fn \in {"convert_dpad_to_hat", "usbd_convert_dpad_to_hat"} =>
            LET d == calls[k].a \cap {"DU", "DD", "DL", "DR"}
                h == calls[k].b
            IN  /\ h \in 0 .. 8
                /\ d = {} => h = 8
                /\ d = {"DU"} => h = 0
                /\ d = {"DU", "DR"} => h = 1
                /\ d = {"DR"} => h = 2
                /\ d = {"DD", "DR"} => h = 3
                /\ d = {"DD"} => h = 4
                /\ d = {"DD", "DL"} => h = 5
                /\ d = {"DL"} => h = 6
                /\ d = {"DU", "DL"} => h = 7
                /\ \A j \in DOMAIN calls :
                      (/\ calls[j].fn = calls[k].fn
                       /\ calls[j].a \cap {"DU", "DD", "DL", "DR"} = d)
                      => calls[j].b = h

\* C16 happens: up and right pressed together with two other buttons
C16_Witness ==
    \E k \in DOMAIN calls :
        /\ calls[k].fn = "convert_dpad_to_hat"
        /\ calls[k].a = {"DU", "DR", "B1", "L2"}
        /\ calls[k].b = 1

\* C17: for every button word that holds an opposite pair of directions (up
\* with down, or left with right, alone or with other directions) the d-pad
\* encoders answer CENTER (8).
C17_DpadOppositePairs ==
    \A k \in DOMAIN calls :
        (/\ calls[k].fn \in {"convert_dpad_to_hat", "usbd_convert_dpad_to_hat"}
         /\ \/ {"DU", "DD"} \subseteq calls[k].a
            \/ {"DL", "DR"} \subseteq calls[k].a)
        => calls[k].b = 8

\* C18: the report switch_mode_send_report builds has exactly the wire bits
\* of the pressed buttons (B1->B bit 1, B2->A bit 2, B3->Y bit 0, B4->X bit 3,
\* L1->L, R1->R, L2->ZL, R2->ZR, S1->MINUS, S2->PLUS, L3, R3, A1->HOME,
\* A2->CAPTURE) and no others, whatever the previous report was; hat is the
\* d-pad encoding, the sticks are the profile output's, vendor is 0.  With
\* only B1 pressed and centred sticks: buttons 0x0002, hat 8, sticks 0x80.
C18_SwitchReport ==
    \A k \in DOMAIN calls :
        calls[k].fn = "switch_mode_send_report" =>
            LET w == calls[k].a.buttons
                po == calls[k].a.profile_out
                rep == calls[k].b
                bit == [B3 |-> 0, B1 |-> 1, B2 |-> 2, B4 |-> 3, L1 |-> 4, R1 |-> 5,
                        L2 |-> 6, R2 |-> 7, S1 |-> 8, S2 |-> 9, L3 |-> 10, R3 |-> 11,
                        A1 |-> 12, A2 |-> 13]
            IN  /\ \A jp \in DOMAIN bit :
                      ((rep.buttons \div 2^bit[jp]) % 2 = 1) <=> (jp \in w)
                /\ rep.buttons \in 0 .. (2^14 - 1)
                /\ rep.hat = convert_dpad_to_hat(w)
                /\ rep.lx = po.left_x /\ rep.ly = po.left_y
                /\ rep.rx = po.right_x /\ rep.ry = po.right_y
                /\ rep.vendor = 0
                /\ (w = {"B1"} /\ po.left_x = 128 /\ po.left_y = 128
                      /\ po.right_x = 128 /\ po.right_y = 128)
                   => rep = [buttons |-> 2, hat |-> 8, lx |-> 128, ly |-> 128,
                             rx |-> 128, ry |-> 128, vendor |-> 0]

\* C18 happens: only B1 pressed, sticks centred, after a report that had
\* every button set
C18_Witness ==
    \E k \in DOMAIN calls :
        /\ calls[k].fn = "switch_mode_send_report"
        /\ calls[k].a.buttons = {"B1"}
        /\ calls[k].a.profile_out.left_x = 128
        /\ calls[k].a.prev.buttons = 2^14 - 1
        /\ calls[k].b.buttons = 2

C20_ProfileIdentity ==
    \A k \in DOMAIN calls :
        (/\ calls[k].fn = "apply_usbd_profile"
         /\ calls[k].a.profile = NullProfile
         /\ calls[k].a.custom # NullProfile
         /\ calls[k].a.custom.button_map = [b \in JpButtons |-> b]
         /\ calls[k].a.custom.left_stick_sens = 100
         /\ calls[k].a.custom.right_stick_sens = 100
         /\ calls[k].a.custom.flags = {})
        => /\ calls[k].b.buttons = calls[k].a.event.buttons
           /\ calls[k].c = calls[k].a.event.buttons
           /\ calls[k].b.left_x = calls[k].a.event.analog.LX
           /\ calls[k].b.left_y = calls[k].a.event.analog.LY
           /\ calls[k].b.right_x = calls[k].a.event.analog.RX
           /\ calls[k].b.right_y = calls[k].a.event.analog.RY

\* C20 happens: the identity profile on an extreme stick position
C20_Witness ==
    \E k \in DOMAIN calls :
        /\ calls[k].fn = "apply_usbd_profile"
        /\ calls[k].a.profile = NullProfile
        /\ calls[k].a.custom # NullProfile
        /\ calls[k].a.custom.button_map = [b \in JpButtons |-> b]
        /\ calls[k].a.custom.left_stick_sens = 100
        /\ calls[k].a.custom.right_stick_sens = 100
        /\ calls[k].a.custom.flags = {}
        /\ calls[k].a.event.analog.LX = 255
        /\ calls[k].a.event.buttons = {"B1", "DU"}
        /\ calls[k].b.left_x = 255

\* C21: with no built-in profile and a custom profile at 100 % sensitivity,
\* INVERT_LY (resp. INVERT_RY) makes the output left_y (resp. right_y) equal
\* 255 minus the value entering the inversion (LY 0x20 gives 0xDF), the x
\* axes, the uninverted y axis and the buttons are what they are without the
\* flag, and applying the profile twice gives back the input sticks.
C21_InvertAxes ==
    /\ \A k \in DOMAIN calls :
        (/\ calls[k].fn = "apply_usbd_profile"
         /\ calls[k].a.profile = NullProfile
         /\ calls[k].a.custom # NullProfile
         /\ calls[k].a.custom.left_stick_sens = 100
         /\ calls[k].a.custom.right_stick_sens = 100)
        => LET e == calls[k].a.event.analog
               f == calls[k].a.custom.flags
               swap == "SWAP_STICKS" \in f
               ly_in == IF swap THEN e.RY ELSE e.LY
               ry_in == IF swap THEN e.LY ELSE e.RY
           IN /\ calls[k].b.left_y = IF "INVERT_LY" \in f THEN 255 - ly_in ELSE ly_in
              /\ calls[k].b.right_y = IF "INVERT_RY" \in f THEN 255 - ry_in ELSE ry_in
              /\ calls[k].b.left_x = IF swap THEN e.RX ELSE e.LX
              /\ calls[k].b.right_x = IF swap THEN e.LX ELSE e.RX
              /\ calls[k].b.buttons =
                    {calls[k].a.custom.button_map[x] : x \in calls[k].a.event.buttons}
              /\ (f = {"INVERT_LY"} /\ e.LY = 32) => calls[k].b.left_y = 223
    /\ (/\ Len(calls) = 4
        /\ calls[1].fn = "apply_usbd_profile"
        /\ calls[3].fn = "apply_usbd_profile"
        /\ calls[1].a.custom.left_stick_sens = 100
        /\ calls[1].a.custom.right_stick_sens = 100
        /\ "SWAP_STICKS" \notin calls[1].a.custom.flags)
       => /\ calls[3].b.left_x = calls[1].a.event.analog.LX
          /\ calls[3].b.left_y = calls[1].a.event.analog.LY
          /\ calls[3].b.right_x = calls[1].a.event.analog.RX
          /\ calls[3].b.right_y = calls[1].a.event.analog.RY

\* C21 happens: LY 0x20 inverted to 0xDF, and inverted back by a second pass
C21_Witness ==
    /\ Len(calls) = 4
    /\ calls[1].fn = "apply_usbd_profile"
    /\ calls[3].fn = "apply_usbd_profile"
    /\ calls[1].a.custom.flags = {"INVERT_LY"}
    /\ calls[1].a.custom.left_stick_sens = 100
    /\ calls[1].a.custom.right_stick_sens = 100
    /\ calls[1].a.event.analog.LY = 32
    /\ calls[1].b.left_y = 223
    /\ calls[3].b.left_y = 32

\* C22: the sensitivity scaling saturates: for every stick input v and every
\* sensitivity s the output axis is 128 + (v - 128) * s / 100 limited to
\* 0..255; it never wraps around modulo 256 (v = 255, s = 200 gives 255 and
\* v = 0, s = 200 gives 0).
C22_SensitivitySaturates ==
    \A k \in DOMAIN calls :
        (/\ calls[k].fn = "apply_usbd_profile"
         /\ calls[k].a.profile = NullProfile
         /\ calls[k].a.custom # NullProfile
         /\ calls[k].a.custom.flags = {})
        => LET e == calls[k].a.event.analog
               sl == calls[k].a.custom.left_stick_sens
               sr == calls[k].a.custom.right_stick_sens
               Toward0(n) == IF n >= 0 THEN n \div 100 ELSE -((-n) \div 100)
               Clamp(n) == IF n < 0 THEN 0 ELSE IF n > 255 THEN 255 ELSE n
               Scaled(v, pct) == Clamp(128 + Toward0((v - 128) * pct))
           IN /\ calls[k].b.left_x = Scaled(e.LX, sl)
              /\ calls[k].b.left_y = Scaled(e.LY, sl)
              /\ calls[k].b.right_x = Scaled(e.RX, sr)
              /\ calls[k].b.right_y = Scaled(e.RY, sr)

\* C23: built-in and custom profiles compose: with an active built-in
\* profile and an active custom profile, the built-in remap is applied first
\* and the custom profile's button table, sensitivity and flags are applied
\* to its output.
C23_ProfilesCompose ==
    \A k \in DOMAIN calls :
        (/\ calls[k].fn = "apply_usbd_profile"
         /\ calls[k].a.profile # NullProfile
         /\ calls[k].a.custom # NullProfile)
        => LET p == calls[k].a.profile
               c == calls[k].a.custom
               built_in == [calls[k].a.event EXCEPT
                               !.buttons = {p.button_map[x] : x \in @}]
               composed == apply_usbd_profile(NullProfile, c, built_in, calls[k].a.out)
           IN /\ calls[k].b.buttons =
                    {c.button_map[p.button_map[x]] : x \in calls[k].a.event.buttons}
              /\ calls[k].b.left_x = composed.left_x
              /\ calls[k].b.left_y = composed.left_y
              /\ calls[k].b.right_x = composed.right_x
              /\ calls[k].b.right_y = composed.right_y

\* C24: for every event apply_usbd_profile makes the output's has_motion and
\* has_pressure equal to the event's, and when the flag is set the three
\* accel values, the three gyro values and the twelve pressure values are the
\* event's, whatever the profile, its flags or its sensitivity.
C24_MotionPressurePassThrough ==
    \A k \in DOMAIN calls :
        calls[k].fn = "apply_usbd_profile" =>
            LET e == calls[k].a.event
                o == calls[k].b
            IN /\ o.has_motion = e.has_motion
               /\ o.has_pressure = e.has_pressure
               /\ e.has_motion =>
                     \A i \in 0 .. 2 : o.accel[i] = e.accel[i] /\ o.gyro[i] = e.gyro[i]
               /\ e.has_pressure => \A i \in 0 .. 11 : o.pressure[i] = e.pressure[i]

\* C24 happens: motion copied over an uninitialised profile_out and the
\* pressure flag cleared, under a custom profile with every flag and a
\* sensitivity of 200 %
C24_Witness ==
    \E k \in DOMAIN calls :
        /\ calls[k].fn = "apply_usbd_profile"
        /\ calls[k].a.profile = NullProfile
        /\ calls[k].a.custom # NullProfile
        /\ calls[k].a.custom.flags = ProfileFlags
        /\ calls[k].a.custom.left_stick_sens = 200
        /\ calls[k].a.event.has_motion
        /\ calls[k].a.out.gyro[2] = 171
        /\ calls[k].b.gyro[2] = 6
        /\ calls[k].a.out.has_pressure
        /\ ~calls[k].b.has_pressure

\* C29: active_output is null until every output's init has completed; it
\* is set, to the first enumerated output, only at the end of initialization,
\* and never changes afterwards.
C29_ActiveOutputAfterInits ==
    (pc0 = "outputs_init" /\ idx <= Len(outputs)) => active_output = "NULL"


\* what the claim expects of index for a mode that serves every index:
\* d is the descriptor returned for a string of strlen len
StringExpected(om, index, len, d) ==
    LET n == IF len > 31 THEN 31 ELSE len
        header(count) == d # NullDescriptor /\ d.type = 3 /\ d.count = count
                         /\ d.bLength = 2 * count + 2
    IN  CASE index = 0 -> header(1) /\ d.str[2] = "0x0409"
          [] index = 1 -> header(n) /\ d.str = <<ModeStringPrefix(om), "MANUFACTURER">>
          [] index = 2 -> header(n) /\ d.str = <<ModeStringPrefix(om), "PRODUCT">>
          [] index = 3 -> header(12) /\ d.str[2] = "usb_serial_str"
          [] index = 4 -> header(11) /\ d.str[2] = "Joypad Data"
          [] index = 5 -> header(12) /\ d.str[2] = "Joypad Debug"
          [] OTHER -> d = NullDescriptor

\* C27 as stated: for every mode, tud_descriptor_string_cb returns the
\* language id for index 0, the mode's manufacturer and product for 1 and 2,
\* the 12-character serial for 3, the CDC labels for 4 and 5 and null for any
\* other index, every header holding type STRING and length 2*n+2, n <= 31
C27_StringDispatchEveryMode ==
    \A k \in DOMAIN calls :
        calls[k].fn = "tud_descriptor_string_cb" =>
            StringExpected(output_mode, calls[k].a, calls[k].b, calls[k].ret)

\* C27 (amended): Xbox OG returns null for every index; Xbox One serves
\* indices 0 to 3 (language id, its manufacturer and product, the serial) and
\* returns null for every other index, the CDC labels included; every other
\* mode serves indices 0 to 5 as stated and returns null beyond; every
\* returned descriptor holds type STRING and length 2*n+2 with n capped at 31
C27_StringDispatch ==
    \A k \in DOMAIN calls :
        calls[k].fn = "tud_descriptor_string_cb" =>
            IF output_mode = USB_OUTPUT_MODE_XBOX_ORIGINAL
            THEN calls[k].ret = NullDescriptor
            ELSE IF output_mode = USB_OUTPUT_MODE_XBONE /\ calls[k].a \in {4, 5}
            THEN calls[k].ret = NullDescriptor
            ELSE StringExpected(output_mode, calls[k].a, calls[k].b, calls[k].ret)

\* C27 witness: the host asked an Xbox OG device for the language id
C27_Witness ==
    /\ output_mode = USB_OUTPUT_MODE_XBOX_ORIGINAL
    /\ \E k \in DOMAIN calls :
          /\ calls[k].fn = "tud_descriptor_string_cb"
          /\ calls[k].a = 0
          /\ calls[k].ret = NullDescriptor


C30_NoNullCall ==
    \A k \in DOMAIN calls :
        /\ calls[k].fn \in MemberCalls =>
              /\ usbd_modes[calls[k].a]
              /\ MemberOf(mode_members[calls[k].a], calls[k].fn)
        /\ (calls[k].fn = "usbd_get_rumble" /\ k = 1) => calls[k].ret = 0
        /\ (calls[k].fn = "usbd_get_feedback" /\ k = 1) => calls[k].ret = FALSE
        /\ (calls[k].fn = "usbd_app_driver_get_cb" /\ k = 1 /\ calls[k].a = 1) =>
              output_mode = USB_OUTPUT_MODE_XINPUT
        /\ (calls[k].fn = "tud_hid_get_report_cb" /\ k = 1) => calls[k].ret = "hid_report"

\* C30 witness: PS3 mode with no optional member asked for rumble and got 0
C30_Witness ==
    /\ mode_members = UniformMembers(FALSE)
    /\ output_mode = USB_OUTPUT_MODE_PS3
    /\ usbd_modes[USB_OUTPUT_MODE_PS3]
    /\ calls = <<Ret("usbd_get_rumble", 200, 0)>>


\* the tick asked the mode (or the HID stack) for readiness and was told yes
TickReady(cs) ==
    \E k \in DOMAIN cs : cs[k].fn \in {"is_ready", "tud_hid_ready"} /\ cs[k].b = 1

\* C25: on a usbd_task tick where the mode is ready and player 0 has no
\* pending event, KB/Mouse mode calls kbmouse_mode_send_idle_mouse and leaves
\* every pending slot as it was; every other mode emits nothing
C25_KbMouseIdle ==
    [][(pc0 = "outputs_task" /\ TickReady(calls') /\ ~pending_flags[0]
            /\ usbd_mode(ModeCase(output_mode, cfg_tud)).send_report) =>
         /\ pending_flags' = pending_flags
         /\ pending_events' = pending_events
         /\ send_log' = send_log
         /\ \A k \in DOMAIN calls' :
               calls'[k].fn \notin {"send_report", "apply_usbd_profile"}
         /\ (output_mode = USB_OUTPUT_MODE_KEYBOARD_MOUSE) <=>
               (\E k \in DOMAIN calls' : calls'[k].fn = "kbmouse_mode_send_idle_mouse")
      ]_vars

\* C25 witness: a ready KB/Mouse tick with nothing pending sent the idle
\* mouse report
C25_Witness ==
    /\ output_mode = USB_OUTPUT_MODE_KEYBOARD_MOUSE
    /\ pc0 = "outputs_task" /\ idx = 2
    /\ ~pending_flags[0]
    /\ send_log = <<>>
    /\ TickReady(calls)
    /\ \E k \in DOMAIN calls : calls[k].fn = "kbmouse_mode_send_idle_mouse"


\* the calls of a tick that test readiness or emit a report
ReadyOrSend ==
    {"is_ready", "tud_hid_ready", "apply_usbd_profile", "send_report",
     "kbmouse_mode_send_idle_mouse"}

C31_TapBeforeRouting ==
    /\ pc0 = "inputs_task" => tap = "usbd_on_input"
    /\ \A k \in DOMAIN calls :
          calls[k].fn \in {"publish", "router_set_tap"} => tap = "usbd_on_input"
    /\ tap \in {"NULL", "usbd_on_input"}
    /\ tap = "NULL" => /\ pending_flags = [p \in Players |-> FALSE]
                       /\ nextId = 1

\* C31 witness: an input task published an event and the tap stored it
C31_Witness ==
    /\ pc0 = "inputs_task"
    /\ tap = "usbd_on_input"
    /\ \E k \in DOMAIN calls : calls[k].fn = "publish" /\ calls[k].a = 1 /\ calls[k].b # NULL
    /\ pending_flags[1]


\* the successor the cycle HID, XInput, PS3, PS4, Switch, HID gives a mode
CommonCycle(om) ==
    CASE om = USB_OUTPUT_MODE_HID -> USB_OUTPUT_MODE_XINPUT
      [] om = USB_OUTPUT_MODE_XINPUT -> USB_OUTPUT_MODE_PS3
      [] om = USB_OUTPUT_MODE_PS3 -> USB_OUTPUT_MODE_PS4
      [] om = USB_OUTPUT_MODE_PS4 -> USB_OUTPUT_MODE_SWITCH
      [] om = USB_OUTPUT_MODE_SWITCH -> USB_OUTPUT_MODE_HID
      [] OTHER -> USB_OUTPUT_MODE_HID

\* C32: usbd_get_next_mode returns the successor of the current mode in the
\* cycle HID, XInput, PS3, PS4, Switch, HID, returns HID for any other
\* current mode, and leaves the current mode as it was
C32_ModeCycle ==
    \A k \in DOMAIN calls :
        calls[k].fn = "usbd_get_next_mode" =>
            /\ calls[k].a = output_mode
            /\ calls[k].ret = CommonCycle(calls[k].a)


\* the send_report calls among cs that carry event e of player p
SendsOf(cs, p, e) ==
    {k \in DOMAIN cs : cs[k].fn = "send_report" /\ cs[k].b = p /\ cs[k].c = e}

\* C33: when the event pending for player 0 has met a tick that was not
\* ready and no event was published for player 0 since, the first tick that
\* is ready passes that event to send_report exactly once (and no other),
\* and consumes the slot; no event is ever passed to send_report twice
C33_NotReadyRetry ==
    [][/\ (pc0 = "outputs_task" /\ stalled /\ pending_flags[0] /\ TickReady(calls')) =>
            /\ Cardinality(SendsOf(calls', 0, pending_events[0])) = 1
            /\ \A k \in DOMAIN calls' :
                  calls'[k].fn = "send_report" => k \in SendsOf(calls', 0, pending_events[0])
            /\ ~pending_flags'[0]
            /\ Len(send_log') = Len(send_log) + 1
            /\ send_log'[Len(send_log')].ev = pending_events[0]
       /\ (pc0 = "outputs_task" /\ stalled /\ pending_flags[0] /\ TickNotReady(calls')) =>
            /\ pending_flags'[0] /\ pending_events'[0] = pending_events[0]
            /\ stalled'
       /\ \A i, j \in DOMAIN send_log' : send_log'[i].ev = send_log'[j].ev => i = j
      ]_vars

\* C33 witness: an event that had met a tick that was not ready was sent
\* by a later tick that was ready
C33_Witness ==
    /\ stalled
    /\ ~pending_flags[0]
    /\ TickReady(calls)
    /\ SendsOf(calls, 0, pending_events[0]) # {}
    /\ Len(send_log) = 1
    /\ send_log[1].ev = pending_events[0]


\* C34: outside a reboot, a slot is written and its flag set only by a
\* publish of an input task on Core 0 through the tap; a flag is cleared only
\* by a usbd_task tick, which leaves the events as they are and passes the
\* cleared slot's event to send_report; the event send_report gets is the
\* one the slot holds before and after the tick; no step of Core 1 changes a
\* slot, and Core 1 runs no task of the USB device output
C34_SlotsSingleCore ==
    [][pc0 # "spin" =>
        /\ (\/ pending_events' # pending_events
            \/ \E p \in Players : pending_flags'[p] /\ ~pending_flags[p]) =>
              /\ pc0 = "inputs_task"
              /\ tap = "usbd_on_input"
              /\ \E k \in DOMAIN calls' : calls'[k].fn = "publish"
              /\ \A p \in Players : pending_flags[p] => pending_flags'[p]
        /\ \A p \in Players :
              (pending_flags[p] /\ ~pending_flags'[p]) =>
                 /\ pc0 = "outputs_task"
                 /\ pending_events' = pending_events
                 /\ SendsOf(calls', p, pending_events[p]) # {}
        /\ \A k \in DOMAIN calls' :
              calls'[k].fn = "send_report" =>
                 /\ pc0 = "outputs_task"
                 /\ calls'[k].c = pending_events[calls'[k].b]
                 /\ calls'[k].c = pending_events'[calls'[k].b]
        /\ pc1' # pc1 => UNCHANGED slotVars
        /\ core1_running' = "NULL"
      ]_vars

\* C34 witness: a tick consumed player 0's slot while player 1's slot, set
\* by an earlier input task, was left pending
C34_Witness ==
    /\ pc0 = "outputs_task" /\ idx = 2
    /\ SendsOf(calls, 0, pending_events[0]) # {}
    /\ ~pending_flags[0]
    /\ pending_flags[1]
    /\ pc1 = "wait"
    /\ core1_running = "NULL"


\* C35: outside a reboot, a flag goes from set to clear only in a step that
\* calls send_report of the mode the dispatcher selects with that slot's
\* event; in every step of Core 0 that calls send_report the slot passed is
\* clear afterwards, whether send_report returned true or false, and the
\* event is one that never reached send_report before
C35_ConsumedWhateverTheResult ==
    [][/\ pc0 # "spin" =>
            \A p \in Players :
               (pending_flags[p] /\ ~pending_flags'[p]) =>
                  \E k \in SendsOf(calls', p, pending_events[p]) :
                     calls'[k].a = ModeCase(output_mode, cfg_tud)
       /\ idx' # idx =>
            \A k \in DOMAIN calls' :
               calls'[k].fn = "send_report" =>
                  /\ calls'[k].ret \in BOOLEAN
                  /\ pending_flags[calls'[k].b]
                  /\ ~pending_flags'[calls'[k].b]
                  /\ \A i \in DOMAIN send_log : send_log[i].ev # calls'[k].c
      ]_vars

\* C35 witness: send_report returned false and the slot was consumed
C35_Witness ==
    /\ pc0 = "outputs_task"
    /\ \E k \in DOMAIN calls :
          /\ calls[k].fn = "send_report"
          /\ calls[k].ret = FALSE
          /\ calls[k].b = 0
          /\ calls[k].c = pending_events[0]
    /\ ~pending_flags[0]
    /\ Len(send_log) = 2


\* the valid events an input step published for player p, in order
RECURSIVE PublishedFor(_, _)
PublishedFor(cs, p) ==
    IF cs = <<>> THEN <<>>
    ELSE (IF Head(cs).fn = "publish" /\ Head(cs).a = p /\ Head(cs).b # NULL
          THEN <<Head(cs).b>> ELSE <<>>) \o PublishedFor(Tail(cs), p)

\* C36: an input step extends the calls of profile_check_switch_combo by
\* exactly the valid events it delivered for player 0, once each and in
\* order (events of players 1..3 add none); every event stored in slot 0 was
\* checked, whether or not it was later overwritten; and each check ran while
\* slot 0 still held the previous event of player 0
C36_ComboCheckScope ==
    [][/\ (pc0 = "inputs_task" /\ idx' # idx) =>
            /\ Len(combo_log') = Len(combo_log) + Len(PublishedFor(calls', 0))
            /\ \A i \in DOMAIN combo_log' :
                  /\ i <= Len(combo_log) => combo_log'[i] = combo_log[i]
                  /\ i > Len(combo_log) =>
                        combo_log'[i].ev = PublishedFor(calls', 0)[i - Len(combo_log)]
       /\ pc0 # "inputs_task" => combo_log' = combo_log \/ combo_log' = <<>>
       /\ \A i \in DOMAIN combo_log' :
             combo_log'[i].slot = IF i = 1 THEN 0 ELSE combo_log'[i - 1].ev
       /\ pending_flags'[0] =>
             \E i \in DOMAIN combo_log' : combo_log'[i].ev = pending_events'[0]
      ]_vars

\* C36 witness: two events of player 0 were checked, the first of them
\* overwritten before any tick consumed it
C36_Witness ==
    /\ Len(combo_log) = 2
    /\ combo_log[1].ev \in overwritten
    /\ combo_log[2].ev = pending_events[0]
    /\ combo_log[2].slot = combo_log[1].ev
    /\ pending_flags[0]
    /\ send_log = <<>>


\* C37: usbd_set_mode(m) with m the current output_mode answers false,
\* writes nothing to the settings (no flash_save_now), does not arm the
\* watchdog and does not end in the reset spin; usbd_reset_to_hid in HID
\* mode answers false, calls nothing and changes nothing.
C37_SameModeNoOp ==
    [][\A k \in DOMAIN calls' :
          /\ (/\ calls'[k].fn = "usbd_set_mode"
              /\ pc0 \in {"outputs_task", "app_task"}
              /\ calls'[k].a = output_mode)
             => /\ calls'[k].b = 0
                /\ \A i \in DOMAIN calls' :
                      calls'[i].fn \notin {"flash_save_now", "watchdog_enable"}
                /\ flash_settings' = flash_settings
                /\ flash' = flash
                /\ watchdog' = watchdog
                /\ output_mode' = output_mode
                /\ pc0' # "spin"
          /\ (/\ calls'[k].fn = "usbd_reset_to_hid"
              /\ pc0 = "app_task"
              /\ output_mode = USB_OUTPUT_MODE_HID)
             => /\ calls'[k].ret = FALSE
                /\ Len(calls') = 1
                /\ flash_settings' = flash_settings
                /\ flash' = flash
                /\ watchdog' = watchdog
                /\ output_mode' = output_mode
                /\ pc0' # "spin"]_vars

\* C37 witness: a mode other than HID was asked for while it was already the
\* active one, and the call came back with false
C37_Witness ==
    /\ output_mode = USB_OUTPUT_MODE_SWITCH
    /\ pc0 = "inputs_task"
    /\ ~watchdog
    /\ \E k \in DOMAIN calls :
          /\ calls[k].fn = "usbd_set_mode"
          /\ calls[k].a = USB_OUTPUT_MODE_SWITCH
          /\ calls[k].b = 0


\* the record booted from: the one in the sector, or the all-zero default
BootRecord(f) == IF f.valid THEN f.rec ELSE ZeroRecord

\* C38: once usbd_init ran, the in-RAM record equals the record booted from
\* in every field but usb_output_mode, and so does every record
\* usbd_set_mode persists; across any mode changes and reboots the sector's
\* active_profile_index and custom-profile slots stay those of the record
\* first booted from.
C38_OnlyModeRewritten ==
    /\ [](tap = "usbd_on_input" =>
            [flash_settings EXCEPT !.usb_output_mode = 0]
                = [BootRecord(flash) EXCEPT !.usb_output_mode = 0])
    /\ [][/\ flash' # flash =>
                /\ flash'.valid
                /\ \E k \in DOMAIN calls' :
                      /\ calls'[k].fn = "flash_save_now"
                      /\ calls'[k].b = 1
                      /\ flash'.rec = [BootRecord(flash) EXCEPT
                                          !.usb_output_mode = calls'[k].a]
          /\ BootRecord(flash').active_profile_index
                = BootRecord(flash).active_profile_index
          /\ BootRecord(flash').custom_profiles = BootRecord(flash).custom_profiles
         ]_vars

\* C38 witness: a sector that held Switch with a profile index and custom
\* slots was rewritten for XInput, the firmware rebooted into XInput, and
\* index and slots are still there
C38_Witness ==
    /\ tap = "usbd_on_input"
    /\ pc0 = "inputs_task"
    /\ output_mode = USB_OUTPUT_MODE_XINPUT
    /\ flash.valid
    /\ flash.rec = [usb_output_mode |-> USB_OUTPUT_MODE_XINPUT,
                    active_profile_index |-> 1, custom_profiles |-> 2]
    /\ flash_settings = flash.rec


\* the values of a uint8_t
Bytes == 0 .. 255

\* C39: output_mode is always one of the eleven supported mode ids, below
\* USB_OUTPUT_MODE_COUNT and an index of the registry; and from the state a
\* boot starts in, usbd_init leaves it so for a sector (valid or not) with
\* any byte as usb_output_mode, and so does usbd_set_mode for any argument.
C39_ModeRange ==
    /\ output_mode \in SupportedModes
    /\ output_mode < USB_OUTPUT_MODE_COUNT
    /\ output_mode \in DOMAIN usbd_modes
    /\ output_mode \in DOMAIN mode_members
    /\ pc0 = "launch" =>
          \A b \in Bytes, v \in BOOLEAN :
             \E u \in {usbd_init(cfg_tud,
                                 [valid |-> v,
                                  rec |-> [ZeroRecord EXCEPT !.usb_output_mode = b]],
                                 output_mode)} :
                /\ u.output_mode \in SupportedModes
                /\ u.output_mode < USB_OUTPUT_MODE_COUNT
                /\ \A m \in Bytes :
                      usbd_set_mode(m, u.output_mode, u.flash_settings, flash,
                                    FALSE, TRUE).output_mode \in SupportedModes

\* C39 witness: the sector held USB_OUTPUT_MODE_COUNT as its mode byte, the
\* firmware booted to HID with it, and usbd_set_mode was then called with an
\* argument out of range
C39_Witness ==
    /\ flash.valid
    /\ flash.rec.usb_output_mode = USB_OUTPUT_MODE_COUNT
    /\ output_mode = USB_OUTPUT_MODE_HID
    /\ \E k \in DOMAIN calls :
          /\ calls[k].fn = "usbd_set_mode"
          /\ calls[k].a = USB_OUTPUT_MODE_COUNT + 1


\* the modes whose case of the feedback getters is the default one
NoFeedbackModes ==
    {USB_OUTPUT_MODE_HID, USB_OUTPUT_MODE_SWITCH, USB_OUTPUT_MODE_PSCLASSIC,
     USB_OUTPUT_MODE_XBONE, USB_OUTPUT_MODE_XAC, USB_OUTPUT_MODE_KEYBOARD_MOUSE}

\* C40: a call of usbd_get_feedback with a record hands back nothing of what
\* the record held before: when no mode member is asked the record is all
\* zero with dirty false and the answer is false, and when the mode is asked
\* the record holds exactly what the mode wrote onto a zeroed record.  In
\* HID, Switch, PS Classic, Xbox One, XAC and KB/Mouse mode no member is
\* asked, usbd_get_feedback answers false with the zeroed record and
\* usbd_get_rumble answers 0.
C40_FeedbackStartsClean ==
    \A k \in DOMAIN calls :
        /\ (calls[k].fn = "usbd_get_feedback" /\ calls[k].a = 1) =>
              /\ k = 1 => calls[k].fb = ZeroFeedback /\ calls[k].ret = FALSE
              /\ k > 1 =>
                    /\ calls[k - 1].fn = "get_feedback"
                    /\ calls[k].fb \in {mode_get_feedback(ZeroFeedback, wr) :
                                            wr \in ModeWrites}
              /\ output_mode \in NoFeedbackModes => k = 1
        /\ (calls[k].fn = "usbd_get_rumble" /\ output_mode \in NoFeedbackModes) =>
              /\ k = 1
              /\ calls[k].ret = 0

\* C40 witness: a record still dirty and holding rumble from an earlier read
\* was passed in PS4 mode, the mode was asked, wrote nothing and answered
\* true, and the record came back all zero
C40_Witness ==
    /\ output_mode = USB_OUTPUT_MODE_PS4
    /\ Len(calls) = 2
    /\ calls[1].fn = "get_feedback"
    /\ calls[2] = FeedbackRet(1, TRUE, StaleFeedback, ZeroFeedback)

====
